---- MODULE Spec2Model ----
(***************************************************************************)
(* A model of the narrative build tooling of scripts/build_story_content.py *)
(* (path-key normalisation, case numbers, the line-oriented document       *)
(* parser, the puzzle-board generator, the story-graph builder) and of the *)
(* graph validator of scripts/validate_story_graph.py.                     *)
(*                                                                         *)
(* Python strings are TLA+ strings; a character is a string of length 1.   *)
(* Optional[T] is a tuple: None is <<>>, a present value v is <<v>>.       *)
(* A call that can raise returns Ok(v) or Raise(e).                        *)
(***************************************************************************)
EXTENDS Integers, Sequences, FiniteSets, TLC

VARIABLES
    pathkey,    \* sanitize_path_key: its argument and the results of applying it
    casenum,    \* Subchapter.case_number: the Subchapter and the result
    doc,        \* parse_docx_file: the file name and the paragraphs read so far
    parser,     \* parse_docx_file: its locals, and what it returned or raised
    boards,     \* the puzzle-board generation of one Subchapter, run by run
    build,      \* build_story_dataset: the documents, the loop position, case_content
    validator   \* validate_story_graph.main: the graph, queue, visited, reports

vars == <<pathkey, casenum, doc, parser, boards, build, validator>>

----------------------------------------------------------------------------
(* Python values *)

None == <<>>
Some(v) == <<v>>
Ok(v) == [ok |-> TRUE, val |-> v]
Raise(e) == [ok |-> FALSE, val |-> e]

\* The state of a component a specification does not run.
Idle == [phase |-> "idle"]

----------------------------------------------------------------------------
(* Python's str and re primitives, as the source uses them *)

Ch(s, i) == SubSeq(s, i, i)
CharsOf(s) == {Ch(s, i) : i \in 1..Len(s)}

LowerLetters == "abcdefghijklmnopqrstuvwxyz"
UpperLetters == "ABCDEFGHIJKLMNOPQRSTUVWXYZ"
DigitChars == "0123456789"

LowerSet == CharsOf(LowerLetters)
UpperSet == CharsOf(UpperLetters)
DigitSet == CharsOf(DigitChars)
AlnumSet == LowerSet \cup UpperSet \cup DigitSet
\* \s, and what str.strip() and str.split() take as whitespace
SpaceSet == {" ", "\t", "\n", "\r"}

UpperMap == [c \in LowerSet |-> Ch(UpperLetters, CHOOSE i \in 1..Len(LowerLetters) : Ch(LowerLetters, i) = c)]
LowerMap == [c \in UpperSet |-> Ch(LowerLetters, CHOOSE i \in 1..Len(UpperLetters) : Ch(UpperLetters, i) = c)]

LowerChar(c) == IF c \in UpperSet THEN LowerMap[c] ELSE c

\* str.upper()
Upper(s) ==
    LET f[i \in 0..Len(s)] == IF i = 0 THEN "" ELSE f[i - 1] \o (IF Ch(s, i) \in LowerSet THEN UpperMap[Ch(s, i)] ELSE Ch(s, i))
    IN f[Len(s)]

\* str.lower()
Lower(s) ==
    LET f[i \in 0..Len(s)] == IF i = 0 THEN "" ELSE f[i - 1] \o LowerChar(Ch(s, i))
    IN f[Len(s)]

\* re.sub(r"[^...]", "", s): the characters of s that are in the class keep
KeepChars(s, keep) ==
    LET f[i \in 0..Len(s)] ==
            IF i = 0 THEN ""
            ELSE IF Ch(s, i) \in keep THEN f[i - 1] \o Ch(s, i) ELSE f[i - 1]
    IN f[Len(s)]

\* re.sub(r"[^...]", " ", s): every character outside keep becomes a space
BlankChars(s, keep) ==
    LET f[i \in 0..Len(s)] ==
            IF i = 0 THEN ""
            ELSE f[i - 1] \o (IF Ch(s, i) \in keep THEN Ch(s, i) ELSE " ")
    IN f[Len(s)]

\* the number of consecutive characters of s from position i that are in class
RECURSIVE ClassRun(_, _, _)
ClassRun(s, i, class) ==
    IF i > Len(s) \/ Ch(s, i) \notin class THEN 0 ELSE 1 + ClassRun(s, i + 1, class)

\* the same, from position i towards the start of s
RECURSIVE ClassRunBack(_, _, _)
ClassRunBack(s, i, class) ==
    IF i < 1 \/ Ch(s, i) \notin class THEN 0 ELSE 1 + ClassRunBack(s, i - 1, class)

\* str.strip(chars)
StripChars(s, chars) ==
    LET lead == ClassRun(s, 1, chars)
    IN IF lead = Len(s) THEN ""
       ELSE SubSeq(s, lead + 1, Len(s) - ClassRunBack(s, Len(s), chars))

\* str.strip()
Strip(s) == StripChars(s, SpaceSet)

\* s[i:i+len(p)] == p, positions from 1
MatchAt(s, p, i) == i >= 1 /\ i + Len(p) - 1 <= Len(s) /\ SubSeq(s, i, i + Len(p) - 1) = p

\* str.startswith(p)
StartsWith(s, p) == MatchAt(s, p, 1)

\* str.find(p) from position i, positions from 1; 0 when p does not occur
RECURSIVE FindFrom(_, _, _)
FindFrom(s, p, i) ==
    IF i > Len(s) - Len(p) + 1 THEN 0
    ELSE IF MatchAt(s, p, i) THEN i
    ELSE FindFrom(s, p, i + 1)

\* p in s
Contains(s, p) == FindFrom(s, p, 1) # 0

\* str.replace(old, new), old not empty: non-overlapping occurrences, left to right
RECURSIVE ReplaceFrom(_, _, _, _)
ReplaceFrom(s, old, new, i) ==
    IF i > Len(s) THEN ""
    ELSE IF MatchAt(s, old, i) THEN new \o ReplaceFrom(s, old, new, i + Len(old))
    ELSE Ch(s, i) \o ReplaceFrom(s, old, new, i + 1)

Replace(s, old, new) == ReplaceFrom(s, old, new, 1)

\* str.split(): the maximal runs of non-whitespace characters
RECURSIVE SplitFrom(_, _, _)
SplitFrom(s, i, cur) ==
    IF i > Len(s) THEN (IF cur = "" THEN <<>> ELSE <<cur>>)
    ELSE IF Ch(s, i) \in SpaceSet
         THEN (IF cur = "" THEN <<>> ELSE <<cur>>) \o SplitFrom(s, i + 1, "")
         ELSE SplitFrom(s, i + 1, cur \o Ch(s, i))

Split(s) == SplitFrom(s, 1, "")

\* sep.join(parts)
RECURSIVE Join(_, _)
Join(sep, parts) ==
    IF Len(parts) = 0 THEN ""
    ELSE IF Len(parts) = 1 THEN parts[1]
    ELSE parts[1] \o sep \o Join(sep, Tail(parts))

\* re.fullmatch(r"[class]+", s)
FullMatchClass(s, class) == Len(s) >= 1 /\ \A i \in 1..Len(s) : Ch(s, i) \in class

\* a literal of a pattern compiled with re.IGNORECASE, at position i
MatchCI(s, p, i) ==
    /\ i >= 1 /\ i + Len(p) - 1 <= Len(s)
    /\ LowerChar(Ch(s, i)) = LowerChar(Ch(p, 1))
    /\ Lower(SubSeq(s, i, i + Len(p) - 1)) = Lower(p)

\* int(digits)
RECURSIVE StrToInt(_)
StrToInt(d) ==
    IF Len(d) = 0 THEN 0
    ELSE 10 * StrToInt(SubSeq(d, 1, Len(d) - 1))
         + ((CHOOSE k \in 1..10 : Ch(DigitChars, k) = Ch(d, Len(d))) - 1)

\* the least element of a set of positions, 0 for the empty set (no match)
FirstOf(S) == IF S = {} THEN 0 ELSE CHOOSE k \in S : \A j \in S : k <= j

\* s.split(sep, 1)[1], for sep in s
AfterFirst(s, sep) == SubSeq(s, FindFrom(s, sep, 1) + Len(sep), Len(s))

\* str.splitlines() over "\n" and "\r", with the empty segments a caller drops
RECURSIVE SplitLines(_, _, _)
SplitLines(s, i, cur) ==
    IF i > Len(s) THEN <<cur>>
    ELSE IF Ch(s, i) \in {"\n", "\r"} THEN <<cur>> \o SplitLines(s, i + 1, "")
    ELSE SplitLines(s, i + 1, cur \o Ch(s, i))

\* [f(x) for x in seq if keep(x)] for the filter of a list
RECURSIVE SelectNonBlank(_)
SelectNonBlank(seq) ==
    IF Len(seq) = 0 THEN <<>>
    ELSE IF Strip(seq[1]) = "" THEN SelectNonBlank(Tail(seq))
    ELSE <<seq[1]>> \o SelectNonBlank(Tail(seq))

----------------------------------------------------------------------------
(* PathKey normalisation *)

normalize_path_token_lowercase_only(token) ==
    LET FirstWord(parts) == IF Len(parts) = 0 THEN Raise("IndexError") ELSE Ok(parts[1])
        Collapsed(t) == IF FullMatchClass(t, AlnumSet \cup {"-"}) THEN Replace(t, "-", "") ELSE t
        Normalized(t) == IF t = "" THEN Ok(t) ELSE FirstWord(Split(Collapsed(t)))
    IN Normalized(Strip(Replace(Replace(Strip(token), "super-path", ""), "path", "")))

\* _normalize_path_token: strip, drop the four markers, strip, drop the hyphens of a
\* token of letters, digits and hyphens, take the first word; "".split()[0] raises
\* IndexError
normalize_path_token(token) ==
    LET FirstWord(parts) == IF Len(parts) = 0 THEN Raise("IndexError") ELSE Ok(parts[1])
        Collapsed(t) == IF FullMatchClass(t, AlnumSet \cup {"-"}) THEN Replace(t, "-", "") ELSE t
        Normalized(t) == IF t = "" THEN Ok(t) ELSE FirstWord(Split(Collapsed(t)))
    IN Normalized(Strip(Replace(Replace(Replace(Replace(Strip(token),
                            "Super-Path", ""), "super-path", ""), "Path", ""), "path", "")))

sanitize_path_key(token) ==
    LET Rooted(cleaned) == Ok(IF cleaned = "" THEN "ROOT" ELSE cleaned)
        Cleaned(primary) == IF ~primary.ok THEN primary
                            ELSE Rooted(Upper(KeepChars(primary.val, AlnumSet)))
    IN IF token = None \/ token = Some("") THEN Ok("ROOT")
       ELSE Cleaned(normalize_path_token(token[1]))

\* derive_path_key_from_filename with the path token taken from the fourth word on
derive_path_key_from_fourth_word(stem) ==
    LET parts == Split(stem)
    IN IF Len(parts) <= 3 THEN Ok("ROOT")
       ELSE sanitize_path_key(Some(Join(" ", SubSeq(parts, 4, Len(parts)))))

\* derive_path_key_from_filename; stem is the file name without its suffix
derive_path_key_from_filename(stem) ==
    LET parts == Split(stem)
    IN IF Len(parts) <= 2 THEN Ok("ROOT")
       ELSE sanitize_path_key(Some(Join(" ", SubSeq(parts, 3, Len(parts)))))

----------------------------------------------------------------------------
(* Target extraction and the recap marker *)

\* CHAPTER_PATTERN = Ch(?:apter)?\s*(\d+), IGNORECASE, matched at position i:
\* the position and length of group 1, or <<0, 0>>
ChapterPatternAt(s, i) ==
    LET Digits(g, n, otherwise) == IF n >= 1 THEN <<g, n>> ELSE otherwise
        DigitsAt(g, otherwise) == Digits(g, ClassRun(s, g, DigitSet), otherwise)
        Short(g) == DigitsAt(g, <<0, 0>>)
        Long(g, short) == IF MatchCI(s, "apter", i + 2) THEN DigitsAt(g, short) ELSE short
    IN IF ~MatchCI(s, "ch", i) THEN <<0, 0>>
       ELSE Long(i + 7 + ClassRun(s, i + 7, SpaceSet), Short(i + 2 + ClassRun(s, i + 2, SpaceSet)))

\* PATH_PATTERN = Path\s+([A-Za-z0-9\-]+), IGNORECASE, at position i
PathPatternAt(s, i) ==
    LET Group(g, n) == IF n >= 1 THEN <<g, n>> ELSE <<0, 0>>
        AfterSpace(ws) == IF ws >= 1 THEN Group(i + 4 + ws, ClassRun(s, i + 4 + ws, AlnumSet \cup {"-"}))
                          ELSE <<0, 0>>
    IN IF MatchCI(s, "path", i) THEN AfterSpace(ClassRun(s, i + 4, SpaceSet)) ELSE <<0, 0>>

\* CHAPTER_CODE_PATTERN = Chapter\s+\d+\s*:\s*([A-Za-z0-9\-]+), IGNORECASE, at i
ChapterCodePatternAt(s, i) ==
    LET Group(g, n) == IF n >= 1 THEN <<g, n>> ELSE <<0, 0>>
        GroupAt(g) == Group(g, ClassRun(s, g, AlnumSet \cup {"-"}))
        AfterColon(colon) == IF MatchAt(s, ":", colon)
                             THEN GroupAt(colon + 1 + ClassRun(s, colon + 1, SpaceSet))
                             ELSE <<0, 0>>
        AfterDigits(d, nd) == IF nd >= 1 THEN AfterColon(d + nd + ClassRun(s, d + nd, SpaceSet))
                              ELSE <<0, 0>>
        AfterSpace(ws) == IF ws >= 1 THEN AfterDigits(i + 7 + ws, ClassRun(s, i + 7 + ws, DigitSet))
                          ELSE <<0, 0>>
    IN IF MatchCI(s, "chapter", i) THEN AfterSpace(ClassRun(s, i + 7, SpaceSet)) ELSE <<0, 0>>

\* "([^"]+)" at position i
QuotedAt(s, i) ==
    LET Group(n) == IF n >= 1 /\ MatchAt(s, "\"", i + 1 + n) THEN <<i + 1, n>> ELSE <<0, 0>>
    IN IF MatchAt(s, "\"", i) THEN Group(ClassRun(s, i + 1, CharsOf(s) \ {"\""})) ELSE <<0, 0>>

\* pattern.search(line): group 1 of the leftmost match, None without a match
Search(s, pattern) ==
    LET At(i) == IF pattern = "chapter" THEN ChapterPatternAt(s, i)
                 ELSE IF pattern = "path" THEN PathPatternAt(s, i)
                 ELSE IF pattern = "code" THEN ChapterCodePatternAt(s, i)
                 ELSE QuotedAt(s, i)
        Group(g) == Some(SubSeq(s, g[1], g[1] + g[2] - 1))
        Leftmost(hits) == IF hits = {} THEN None
                          ELSE Group((CHOOSE h \in hits : \A o \in hits : h[1] <= o[1])[2])
    IN Leftmost({h \in {<<i, At(i)>> : i \in 1..Len(s)} : h[2][1] # 0})

\* extract_target: Ok(<<chapter, path_key>>), chapter an Optional[int]; raises what
\* sanitize_path_key raises
extract_target(line) ==
    LET FirstSome(a, b, c) == IF a # None THEN a ELSE IF b # None THEN b ELSE c
        Chapter(chapter_match) ==
            IF chapter_match = None THEN None ELSE Some(StrToInt(chapter_match[1]))
        Target(chapter, path_fragment, path_key) ==
            IF ~path_key.ok THEN path_key
            ELSE Ok(<<chapter, IF path_fragment = None THEN "ROOT" ELSE path_key.val>>)
        WithFragment(path_fragment) ==
            Target(Chapter(Search(line, "chapter")), path_fragment, sanitize_path_key(path_fragment))
    IN WithFragment(FirstSome(Search(line, "path"), Search(line, "code"), Search(line, "quoted")))

\* extract_previously_block: the recap text, None when the line is no recap line;
\* the lines of the model are ASCII, so of the quote characters the source strips
\* only the straight one occurs
extract_previously_block(line) ==
    LET NonEmpty(text) == IF text = "" THEN None ELSE Some(text)
        Normalized(segments) ==
            Strip(Join("\n", [k \in 1..Len(segments) |-> StripChars(Strip(segments[k]), {"\""})]))
        First(remainder) ==
            IF Contains(remainder, "\n\n")
            THEN Strip(SubSeq(remainder, 1, FindFrom(remainder, "\n\n", 1) - 1)) ELSE remainder
        Recap(remainder) ==
            IF remainder = "" THEN None
            ELSE NonEmpty(Normalized(SelectNonBlank(SplitLines(First(remainder), 1, ""))))
        After(end) ==
            Recap(Strip(SubSeq(line, IF MatchAt(line, ":", end) THEN end + 1 ELSE end, Len(line))))
        From(at) == IF at = 0 THEN None ELSE After(at + 10 + ClassRun(line, at + 10, SpaceSet))
    IN From(FirstOf({i \in 1..Len(line) : MatchCI(line, "previously", i)}))

----------------------------------------------------------------------------
(* The document parser: parse_docx_file, one paragraph at a time *)

\* DecisionOption(key=key, title=title)
NewDecisionOption(key, title) ==
    [key |-> key, title |-> title, consequence |-> None, focus |-> None,
     stats |-> None, outcome |-> None, next_chapter |-> None,
     next_path_key |-> None, raw_lines |-> <<>>]

\* DecisionOption.to_dict
to_dict(option) ==
    [key |-> option.key, title |-> option.title, consequence |-> option.consequence,
     focus |-> option.focus, stats |-> option.stats, outcome |-> option.outcome,
     nextChapter |-> option.next_chapter, nextPathKey |-> option.next_path_key,
     details |-> option.raw_lines]

\* Subchapter(chapter, index, path_key, title, bridge_text)
NewSubchapter(chapter, index, path_key, title, bridge_text) ==
    [chapter |-> chapter, index |-> index, path_key |-> path_key, title |-> title,
     bridge_text |-> bridge_text, paragraphs |-> <<>>, decision |-> None,
     previously |-> None, board |-> None]

\* the locals of parse_docx_file before the first paragraph (decision_intro is
\* decision_section["intro"], the same list)
NewParser(path_key) ==
    [phase |-> "reading", error |-> None, chapter_number |-> None, path_key |-> path_key,
     subchapters |-> <<>>, current_sub |-> None, current_bridge |-> None,
     decision_section |-> None, current_option |-> None, pending_previously |-> None]

ParserRaise(ps, e) == [ps EXCEPT !.phase = "raised", !.error = Some(e)]

\* re.match(r"Chapter\s+(\d+)", line, re.IGNORECASE): int(group 1), or None
ChapterLineMatch(line) ==
    LET ws == ClassRun(line, 8, SpaceSet)
        nd == ClassRun(line, 8 + ws, DigitSet)
    IN IF MatchCI(line, "chapter", 1) /\ ws >= 1 /\ nd >= 1
       THEN Some(StrToInt(SubSeq(line, 8 + ws, 8 + ws + nd - 1)))
       ELSE None

\* re.match(r"Subchapter\s+(\d+)\.(\d+)", line, re.IGNORECASE): <<chap, index>>, or None
SubchapterMatch(line) ==
    LET ws == ClassRun(line, 11, SpaceSet)
        d1 == 11 + ws
        n1 == ClassRun(line, d1, DigitSet)
        d2 == d1 + n1 + 1
        n2 == ClassRun(line, d2, DigitSet)
    IN IF /\ MatchCI(line, "subchapter", 1) /\ ws >= 1 /\ n1 >= 1
          /\ MatchAt(line, ".", d1 + n1) /\ n2 >= 1
       THEN Some(<<StrToInt(SubSeq(line, d1, d1 + n1 - 1)), StrToInt(SubSeq(line, d2, d2 + n2 - 1))>>)
       ELSE None

\* re.match(r"OPTION\s+([A-Z0-9]+)\s*:\s*(.*)", clean_line): <<key, title group>>, or
\* None; "." stops at a newline
OptionMatch(clean_line) ==
    LET ws == ClassRun(clean_line, 7, SpaceSet)
        k == 7 + ws
        nk == ClassRun(clean_line, k, UpperSet \cup DigitSet)
        colon == k + nk + ClassRun(clean_line, k + nk, SpaceSet)
        t == colon + 1 + ClassRun(clean_line, colon + 1, SpaceSet)
        nt == ClassRun(clean_line, t, CharsOf(clean_line) \ {"\n"})
    IN IF /\ MatchAt(clean_line, "OPTION", 1) /\ ws >= 1 /\ nk >= 1
          /\ MatchAt(clean_line, ":", colon)
       THEN Some(<<SubSeq(clean_line, k, k + nk - 1), SubSeq(clean_line, t, t + nt - 1)>>)
       ELSE None

\* a header that takes the pending bridge text and recap and leaves them pending
ParseSubchapterHeader_keeps_pending(ps, line) ==
    LET closed == IF ps.current_sub # None
                  THEN Append(ps.subchapters, ps.current_sub[1]) ELSE ps.subchapters
        sub_match == SubchapterMatch(line)
        title_part == IF Contains(line, " - ") THEN AfterFirst(line, " - ") ELSE line
        opened == NewSubchapter(sub_match[1][1], sub_match[1][2], ps.path_key,
                                Strip(title_part), ps.current_bridge)
    IN IF sub_match = None
       THEN ParserRaise([ps EXCEPT !.subchapters = closed], "ValueError")
       ELSE [ps EXCEPT !.subchapters = closed,
                       !.current_sub = Some([opened EXCEPT !.previously = ps.pending_previously])]

\* lines 365-386: a line that starts with "Subchapter"
ParseSubchapterHeader(ps, line) ==
    LET closed == IF ps.current_sub # None
                  THEN Append(ps.subchapters, ps.current_sub[1]) ELSE ps.subchapters
        sub_match == SubchapterMatch(line)
        title_part == IF Contains(line, " - ") THEN AfterFirst(line, " - ") ELSE line
        opened == NewSubchapter(sub_match[1][1], sub_match[1][2], ps.path_key,
                                Strip(title_part), ps.current_bridge)
    IN IF sub_match = None
       THEN ParserRaise([ps EXCEPT !.subchapters = closed], "ValueError")
       ELSE [ps EXCEPT !.subchapters = closed,
                       !.current_sub = Some([opened EXCEPT !.previously = ps.pending_previously]),
                       !.current_bridge = None,
                       !.pending_previously = None]

\* lines 389-396: a decision-point marker
ParseDecisionMarker(ps) ==
    [ps EXCEPT !.subchapters = IF ps.current_sub # None
                               THEN Append(ps.subchapters, ps.current_sub[1])
                               ELSE ps.subchapters,
               !.current_sub = None,
               !.decision_section = Some([intro |-> <<>>, options |-> <<>>]),
               !.current_option = None]

\* lines 398-409: an option header inside a decision section
ParseOptionHeader(ps, line) ==
    LET section == ps.decision_section[1]
        closed == IF ps.current_option # None
                  THEN [section EXCEPT !.options = Append(@, ps.current_option[1])]
                  ELSE section
        option_match == OptionMatch(Replace(line, "$$OPTION", "OPTION"))
    IN IF option_match = None
       THEN ParserRaise([ps EXCEPT !.decision_section = Some(closed)], "ValueError")
       ELSE [ps EXCEPT !.decision_section = Some(closed),
                       !.current_option =
                            Some(NewDecisionOption(Strip(option_match[1][1]),
                                                   StripChars(Strip(option_match[1][2]), {"\""})))]

\* the target is taken whenever a line yields one
TakesTarget_any(option, target) ==
    /\ target[1] # None /\ target[1][1] # 0
    /\ target[2] # ""

\* lines 425-428 and 430-433: the target is taken when a chapter (not 0) and a path
\* key are extracted and the option has none yet
TakesTarget(option, target) ==
    /\ target[1] # None /\ target[1][1] # 0
    /\ target[2] # ""
    /\ option.next_chapter = None

\* the chapter of the target alone is kept
SetTarget_chapter_only(option, target) ==
    [option EXCEPT !.next_chapter = target[1]]

SetTarget(option, target) ==
    [option EXCEPT !.next_chapter = target[1], !.next_path_key = Some(target[2])]

\* lines 417-435: a line of an open option
ParseOptionLine(ps, line) ==
    LET option == ps.current_option[1]
        Field(name) == Some(Strip(AfterFirst(line, name)))
        Opened(opt) == [ps EXCEPT !.current_option = Some(opt)]
        Targeted(opt, target, untargeted) ==
            IF ~target.ok THEN ParserRaise(Opened(opt), target.val)
            ELSE IF TakesTarget(opt, target.val) THEN Opened(SetTarget(opt, target.val))
            ELSE Opened(untargeted)
        WithOutcome(opt, target) == Targeted(opt, target, opt)
        WithTarget(target) ==
            IF StartsWith(line, "Consequence:")
            THEN Opened([option EXCEPT !.consequence = Field("Consequence:")])
            ELSE IF StartsWith(line, "Focus:")
            THEN Opened([option EXCEPT !.focus = Field("Focus:")])
            ELSE IF StartsWith(line, "Stats:")
            THEN Opened([option EXCEPT !.stats = Field("Stats:")])
            ELSE IF StartsWith(line, "Outcome:")
            THEN WithOutcome([option EXCEPT !.outcome = Field("Outcome:")], target)
            ELSE Targeted(option, target, [option EXCEPT !.raw_lines = Append(@, line)])
    IN WithTarget(extract_target(line))

\* any other line while a decision section is open, a line before the first
\* option going to the narrative of a Subchapter opened since the marker
ParseDecisionLine_narrates(ps, line) ==
    IF StartsWith(line, "END CHAPTER") \/ StartsWith(line, "[PATH") THEN ps
    ELSE IF ps.current_option = None /\ ps.current_sub # None
    THEN [ps EXCEPT !.current_sub =
             Some([ps.current_sub[1] EXCEPT !.paragraphs = Append(@, line)])]
    ELSE IF ps.current_option = None
    THEN [ps EXCEPT !.decision_section = Some([ps.decision_section[1] EXCEPT !.intro = Append(@, line)])]
    ELSE ParseOptionLine(ps, line)

\* lines 411-436: any other line while a decision section is open
ParseDecisionLine(ps, line) ==
    IF StartsWith(line, "END CHAPTER") \/ StartsWith(line, "[PATH") THEN ps
    ELSE IF ps.current_option = None
    THEN [ps EXCEPT !.decision_section = Some([ps.decision_section[1] EXCEPT !.intro = Append(@, line)])]
    ELSE ParseOptionLine(ps, line)

\* lines 343-440: the body of the loop for one paragraph with text `text`
ParseParagraph(ps, text) ==
    LET Rules(line, previously_fragment, chapter_match) ==
            IF line = "" THEN ps
            ELSE IF previously_fragment # None
            THEN [ps EXCEPT !.pending_previously = previously_fragment]
            ELSE IF chapter_match # None /\ ps.chapter_number = None
            THEN [ps EXCEPT !.chapter_number = chapter_match]
            ELSE IF StartsWith(line, "PUZZLE") THEN ps
            ELSE IF StartsWith(line, "Bridge Text:")
            THEN [ps EXCEPT !.current_bridge =
                     Some(StripChars(Strip(AfterFirst(line, "Bridge Text:")), {"\""}))]
            ELSE IF StartsWith(line, "Subchapter") THEN ParseSubchapterHeader(ps, line)
            ELSE IF line = "[DECISION POINT]" \/ line = "$$DECISION POINT$$"
            THEN ParseDecisionMarker(ps)
            ELSE IF (StartsWith(line, "OPTION") \/ StartsWith(line, "$$OPTION"))
                    /\ ps.decision_section # None
            THEN ParseOptionHeader(ps, line)
            ELSE IF ps.decision_section # None THEN ParseDecisionLine(ps, line)
            ELSE IF ps.current_sub # None
            THEN [ps EXCEPT !.current_sub =
                     Some([ps.current_sub[1] EXCEPT !.paragraphs = Append(@, line)])]
            ELSE ps
        Stripped(line) == Rules(line, extract_previously_block(line), ChapterLineMatch(line))
    IN Stripped(Strip(text))

\* after the last paragraph, without closing the open Subchapter
EndOfParagraphs_unclosed(ps) ==
    IF ps.chapter_number = None THEN ParserRaise(ps, "ValueError")
    ELSE [ps EXCEPT !.subchapters =
            [k \in 1..Len(ps.subchapters) |->
                [ps.subchapters[k] EXCEPT !.chapter = ps.chapter_number[1]]]]

\* after the last paragraph, with the decision attached to the first Subchapter
EndOfParagraphs_decides_first(ps) ==
    LET section == IF ps.current_option # None /\ ps.decision_section # None
                   THEN Some([ps.decision_section[1] EXCEPT
                                !.options = Append(@, ps.current_option[1])])
                   ELSE ps.decision_section
        subs == IF ps.current_sub # None
                THEN Append(ps.subchapters, ps.current_sub[1]) ELSE ps.subchapters
        decision == [intro |-> section[1].intro,
                     options |-> [k \in 1..Len(section[1].options) |-> to_dict(section[1].options[k])]]
        decided == IF section # None /\ Len(subs) > 0
                   THEN [subs EXCEPT ![1].decision = Some(decision)]
                   ELSE subs
        closed == [ps EXCEPT !.decision_section = section, !.subchapters = decided]
    IN IF ps.chapter_number = None THEN ParserRaise(closed, "ValueError")
       ELSE [closed EXCEPT !.subchapters =
                [k \in 1..Len(decided) |-> [decided[k] EXCEPT !.chapter = ps.chapter_number[1]]]]

\* after the last paragraph, returning the Subchapters of a document without a
\* chapter number as their headers number them
EndOfParagraphs_any_chapter(ps) ==
    LET section == IF ps.current_option # None /\ ps.decision_section # None
                   THEN Some([ps.decision_section[1] EXCEPT
                                !.options = Append(@, ps.current_option[1])])
                   ELSE ps.decision_section
        subs == IF ps.current_sub # None
                THEN Append(ps.subchapters, ps.current_sub[1]) ELSE ps.subchapters
        decision == [intro |-> section[1].intro,
                     options |-> [k \in 1..Len(section[1].options) |-> to_dict(section[1].options[k])]]
        decided == IF section # None /\ Len(subs) > 0
                   THEN [subs EXCEPT ![Len(subs)].decision = Some(decision)]
                   ELSE subs
        closed == [ps EXCEPT !.decision_section = section, !.subchapters = decided]
    IN IF ps.chapter_number = None THEN closed
       ELSE [closed EXCEPT !.subchapters =
                [k \in 1..Len(decided) |-> [decided[k] EXCEPT !.chapter = ps.chapter_number[1]]]]

\* after the last paragraph, leaving each Subchapter the chapter of its header
EndOfParagraphs_header_chapter(ps) ==
    LET section == IF ps.current_option # None /\ ps.decision_section # None
                   THEN Some([ps.decision_section[1] EXCEPT
                                !.options = Append(@, ps.current_option[1])])
                   ELSE ps.decision_section
        subs == IF ps.current_sub # None
                THEN Append(ps.subchapters, ps.current_sub[1]) ELSE ps.subchapters
        decision == [intro |-> section[1].intro,
                     options |-> [k \in 1..Len(section[1].options) |-> to_dict(section[1].options[k])]]
        decided == IF section # None /\ Len(subs) > 0
                   THEN [subs EXCEPT ![Len(subs)].decision = Some(decision)]
                   ELSE subs
        closed == [ps EXCEPT !.decision_section = section, !.subchapters = decided]
    IN IF ps.chapter_number = None THEN ParserRaise(closed, "ValueError")
       ELSE closed

\* lines 442-460: after the last paragraph; the Subchapters (before their boards)
\* or the ValueError for a document without a chapter number
EndOfParagraphs(ps) ==
    LET section == IF ps.current_option # None /\ ps.decision_section # None
                   THEN Some([ps.decision_section[1] EXCEPT
                                !.options = Append(@, ps.current_option[1])])
                   ELSE ps.decision_section
        subs == IF ps.current_sub # None
                THEN Append(ps.subchapters, ps.current_sub[1]) ELSE ps.subchapters
        decision == [intro |-> section[1].intro,
                     options |-> [k \in 1..Len(section[1].options) |-> to_dict(section[1].options[k])]]
        decided == IF section # None /\ Len(subs) > 0
                   THEN [subs EXCEPT ![Len(subs)].decision = Some(decision)]
                   ELSE subs
        closed == [ps EXCEPT !.decision_section = section, !.subchapters = decided]
    IN IF ps.chapter_number = None THEN ParserRaise(closed, "ValueError")
       ELSE [closed EXCEPT !.subchapters =
                [k \in 1..Len(decided) |-> [decided[k] EXCEPT !.chapter = ps.chapter_number[1]]]]

----------------------------------------------------------------------------
(* The puzzle board of a Subchapter: keywords, backfill, grid, theme *)

\* Words to ignore when generating puzzles
STOPWORDS ==
    {"the", "and", "to", "of", "a", "in", "is", "it", "you", "that", "he", "was", "for",
     "on", "are", "with", "as", "i", "his", "they", "be", "at", "one", "have", "this",
     "from", "or", "had", "by", "word", "but", "what", "some", "we", "can", "out", "other",
     "were", "all", "there", "when", "up", "use", "your", "how", "said", "an", "each", "she",
     "which", "do", "their", "time", "if", "will", "way", "about", "many", "then", "them",
     "would", "write", "like", "so", "these", "her", "long", "make", "thing", "see", "him",
     "two", "has", "look", "more", "day", "could", "go", "come", "did", "my", "sound", "no",
     "most", "number", "who", "over", "know", "water", "than", "call", "first", "people",
     "may", "down", "side", "been", "now", "find", "any", "new", "work", "part", "take",
     "get", "place", "made", "live", "where", "after", "back", "little", "only", "round",
     "man", "year", "came", "show", "every", "good", "me", "give", "our", "under", "name",
     "very", "through", "just", "form", "sentence", "great", "think", "say", "help", "low",
     "line", "differ", "turn", "cause", "much", "mean", "before", "move", "right", "boy",
     "old", "too", "same", "tell", "does", "set", "three", "want", "air", "well", "also",
     "play", "small", "end", "put", "home", "read", "hand", "port", "large", "spell", "add",
     "even", "land", "here", "must", "big", "high", "such", "follow", "act", "why", "ask",
     "men", "change", "went", "light", "kind", "off", "need", "house", "picture", "try",
     "us", "again", "animal", "point", "mother", "world", "near", "build", "self", "earth",
     "father", "head", "stand", "own", "page", "should", "country", "found", "answer",
     "school", "grow", "study", "still", "learn", "plant", "cover", "food", "sun", "four",
     "between", "state", "keep", "eye", "never", "last", "let", "thought", "city", "tree",
     "cross", "farm", "hard", "start", "might", "story", "saw", "far", "sea", "draw", "left",
     "late", "run", "don't", "while", "press", "close", "night", "real", "life", "few",
     "north", "open", "seem", "together", "next", "white", "children", "begin", "got",
     "walk", "example", "ease", "paper", "group", "always", "music", "those", "both", "mark",
     "often", "letter", "until", "mile", "river", "car", "feet", "care", "second", "book",
     "carry", "took", "science", "eat", "room", "friend", "began", "idea", "fish",
     "mountain", "stop", "once", "base", "hear", "horse", "cut", "sure", "watch", "color",
     "face", "wood", "main", "enough", "plain", "girl", "usual", "young", "ready", "above",
     "ever", "red", "list", "though", "feel", "talk", "bird", "soon", "body", "dog",
     "family", "direct", "pose", "leave", "song", "measure", "door", "product", "black",
     "short", "numeral", "class", "wind", "question", "happen", "complete", "ship", "area",
     "half", "rock", "order", "fire", "south", "problem", "piece", "told", "knew", "pass",
     "since", "top", "whole", "king", "space", "heard", "best", "hour", "better", "true",
     "during", "hundred", "five", "remember", "step", "early", "hold", "west", "ground",
     "interest", "reach", "fast", "verb", "sing", "listen", "six", "table", "travel", "less",
     "morning", "ten", "simple", "several", "vowel", "toward", "war", "lay", "against",
     "pattern", "slow", "center", "love", "person", "money", "serve", "appear", "road",
     "map", "rain", "rule", "govern", "pull", "cold", "notice", "voice", "unit", "power",
     "town", "fine", "certain", "fly", "fall", "lead", "cry", "dark", "machine", "note",
     "wait", "plan", "figure", "star", "box", "noun", "field", "rest", "correct", "able",
     "pound", "done", "beauty", "drive", "stood", "contain", "front", "teach", "week",
     "final", "gave", "green", "oh", "quick", "develop", "ocean", "warm", "free", "minute",
     "strong", "special", "mind", "behind", "clear", "tail", "produce", "fact", "street",
     "inch", "multiply", "nothing", "course", "stay", "wheel", "full", "force", "blue",
     "object", "decide", "surface", "deep", "moon", "island", "foot", "system", "busy",
     "test", "record", "boat", "common", "gold", "possible", "plane", "stead", "dry",
     "wonder", "laugh", "thousand", "ago", "ran", "check", "game", "shape", "equate", "hot",
     "miss", "brought", "heat", "snow", "tire", "bring", "yes", "distant", "fill", "east",
     "paint", "language", "among", "grand", "ball", "yet", "wave", "drop", "heart", "am",
     "present", "heavy", "dance", "engine", "position", "arm", "wide", "sail", "material",
     "size", "vary", "settle", "speak", "weight", "general", "ice", "matter", "circle",
     "pair", "include", "divide", "syllable", "felt", "perhaps", "pick", "sudden", "count",
     "square", "reason", "length", "represent", "art", "subject", "region", "energy", "hunt",
     "probable", "bed", "brother", "egg", "ride", "cell", "believe", "fraction", "forest",
     "sit", "race", "window", "store", "summer", "train", "sleep", "prove", "lone", "leg",
     "exercise", "wall", "catch", "mount", "wish", "sky", "board", "joy", "winter", "sat",
     "written", "wild", "instrument", "kept", "glass", "grass", "cow", "job", "edge", "sign",
     "visit", "past", "soft", "fun", "bright", "gas", "weather", "month", "million", "bear",
     "finish", "happy", "hope", "flower", "clothe", "strange", "gone", "jump", "baby",
     "eight", "village", "meet", "root", "buy", "raise", "solve", "metal", "whether", "push",
     "seven", "paragraph", "third", "shall", "held", "hair", "describe", "cook", "floor",
     "either", "result", "burn", "hill", "safe", "cat", "century", "consider", "type", "law",
     "bit", "coast", "copy", "phrase", "silent", "tall", "sand", "soil", "roll",
     "temperature", "finger", "industry", "value", "fight", "lie", "beat", "excite",
     "natural", "view", "sense", "ear", "else", "quite", "broke", "case", "middle", "kill",
     "son", "lake", "moment", "scale", "loud", "spring", "observe", "child", "straight",
     "consonant", "nation", "dictionary", "milk", "speed", "method", "organ", "pay", "age",
     "section", "dress", "cloud", "surprise", "quiet", "stone", "tiny", "climb", "cool",
     "design", "poor", "lot", "experiment", "bottom", "key", "iron", "single", "stick",
     "flat", "twenty", "skin", "smile", "crease", "hole", "trade", "melody", "trip",
     "office", "receive", "row", "mouth", "exact", "symbol", "die", "least", "trouble",
     "shout", "except", "wrote", "seed", "tone", "join", "suggest", "clean", "break", "lady",
     "yard", "rise", "bad", "blow", "oil", "blood", "touch", "grew", "cent", "mix", "team",
     "wire", "cost", "lost", "brown", "wear", "garden", "equal", "sent", "choose", "fell",
     "fit", "flow", "fair", "bank", "collect", "save", "control", "decimal", "gentle",
     "woman", "captain", "practice", "separate", "difficult", "doctor", "please", "protect",
     "noon", "whose", "locate", "ring", "character", "insect", "caught", "period",
     "indicate", "radio", "spoke", "atom", "human", "history", "effect", "electric",
     "expect", "crop", "modern", "element", "hit", "student", "corner", "party", "supply",
     "bone", "rail", "imagine", "provide", "agree", "thus", "capital", "won't", "chair",
     "danger", "fruit", "rich", "thick", "soldier", "process", "operate", "guess",
     "necessary", "sharp", "wing", "create", "neighbor", "wash", "bat", "rather", "crowd",
     "corn", "compare", "poem", "string", "bell", "depend", "meat", "rub", "tube", "famous",
     "dollar", "stream", "fear", "sight", "thin", "triangle", "planet", "hurry", "chief",
     "colony", "clock", "mine", "tie", "enter", "major", "fresh", "search", "send", "yellow",
     "gun", "allow", "print", "dead", "spot", "desert", "suit", "current", "lift", "rose",
     "continue", "block", "chart", "hat", "sell", "success", "company", "subtract", "event",
     "particular", "deal", "swim", "term", "opposite", "wife", "shoe", "shoulder", "spread",
     "arrange", "camp", "invent", "cotton", "born", "determine", "quart", "nine", "truck",
     "noise", "level", "chance", "gather", "shop", "stretch", "throw", "shine", "property",
     "column", "molecule", "select", "wrong", "gray", "repeat", "require", "broad",
     "prepare", "salt", "nose", "plural", "anger", "claim", "continent", "oxygen", "sugar",
     "death", "pretty", "skill", "women", "season", "solution", "magnet", "silver", "thank",
     "branch", "match", "suffix", "especially", "fig", "afraid", "huge", "sister", "steel",
     "discuss", "forward", "similar", "guide", "experience", "score", "apple", "bought",
     "led", "pitch", "coat", "mass", "card", "band", "rope", "slip", "win", "dream",
     "evening", "condition", "feed", "tool", "total", "basic", "smell", "valley", "nor",
     "double", "seat", "arrive", "master", "track", "parent", "shore", "division", "sheet",
     "substance", "favor", "connect", "post", "spend", "chord", "fat", "glad", "original",
     "share", "station", "dad", "bread", "charge", "proper", "bar", "offer", "segment",
     "slave", "duck", "instant", "market", "degree", "populate", "chick", "dear", "enemy",
     "reply", "drink", "occur", "support", "speech", "nature", "range", "steam", "motion",
     "path", "liquid", "log", "meant", "quotient", "teeth", "shell", "neck", "bridge"}

FILLER_WORDS ==
    <<"FILE", "CASE", "LOCK", "CODE", "TIME", "FACT", "LIES", "TRUE", "DARK", "COLD", "RAIN",
     "CITY", "TOWN", "PORT", "DOCK", "SHIP", "PIER", "YARD", "ROOM", "DOOR", "WALL", "HALL",
     "ROOF", "FLOOR", "KEY", "SAFE", "NOTE", "LIST", "PLAN", "MAPS", "GRID", "DATA", "INFO",
     "TAPE", "FILM", "SHOT", "GLOW", "NEON", "LAMP", "BULB", "FUSE", "WIRE", "CORD", "LINE",
     "PATH", "ROAD", "SIGN", "POST", "MAIL", "SEAL", "STAMP", "COIN", "CASH", "BILL", "DEBT",
     "LOAN", "BOND", "DEAL", "SALE", "SOLD", "PAID", "COST", "RATE", "RANK", "ROLE", "TASK",
     "JOB", "DUTY", "WORK", "HIRE", "BOSS", "CHIEF", "HEAD", "LEAD", "CREW", "GANG", "TEAM",
     "SIDE", "ALLY", "FOE", "RIVAL", "HATE", "FEAR", "PAIN", "HURT", "HARM", "KILL", "DEAD",
     "GONE", "LOST", "PAST", "LATE", "SOON", "FAST", "SLOW", "WAIT", "HALT", "STOP", "EXIT",
     "BACK", "AWAY", "NEAR", "HERE", "SEEN", "SAID", "TOLD", "HELD", "KEPT", "TOOK", "GAVE",
     "MADE", "BUILT", "WORN", "TORN", "BROKE", "BENT", "BLUE", "GREY", "RED", "BLACK",
     "WHITE", "GOLD", "IRON", "STEEL", "LEAD", "ZINC", "DUST", "DIRT", "MUD", "SAND",
     "SMOKE", "HAZE", "FOG", "MIST", "RAIN", "SNOW", "WIND", "STORM", "HEAT", "COLD">>

Range(seq) == {seq[i] : i \in 1..Len(seq)}

\* lines 158-163: the tokens kept, in order, upper-cased; seen is the set of tokens
\* kept so far
RECURSIVE KeepCandidates(_, _)
KeepCandidates(tokens, seen) ==
    IF Len(tokens) = 0 THEN <<>>
    ELSE LET token == tokens[1]
         IN IF Len(token) < 3 \/ token \in STOPWORDS \/ token \in seen
            THEN KeepCandidates(Tail(tokens), seen)
            ELSE <<Upper(token)>> \o KeepCandidates(Tail(tokens), seen \cup {token})

\* longest first, the last of the words of one length first
RECURSIVE SortByLenDesc_last_tie_first(_)
SortByLenDesc_last_tie_first(seq) ==
    IF Len(seq) = 0 THEN <<>>
    ELSE LET k == CHOOSE i \in 1..Len(seq) :
                    /\ \A j \in 1..Len(seq) : Len(seq[j]) <= Len(seq[i])
                    /\ \A j \in (i + 1)..Len(seq) : Len(seq[j]) < Len(seq[i])
         IN <<seq[k]>> \o SortByLenDesc_last_tie_first(SubSeq(seq, 1, k - 1)
                                                        \o SubSeq(seq, k + 1, Len(seq)))

\* list.sort(key=len, reverse=True): stable, longest first
RECURSIVE SortByLenDesc(_)
SortByLenDesc(seq) ==
    IF Len(seq) = 0 THEN <<>>
    ELSE LET k == CHOOSE i \in 1..Len(seq) :
                    /\ \A j \in 1..Len(seq) : Len(seq[j]) <= Len(seq[i])
                    /\ \A j \in 1..(i - 1) : Len(seq[j]) < Len(seq[i])
         IN <<seq[k]>> \o SortByLenDesc(SubSeq(seq, 1, k - 1) \o SubSeq(seq, k + 1, Len(seq)))

\* extract_keywords with `seen` kept from one call to the next
extract_keywords_shared_seen(text, count) ==
    IF text = "" THEN <<>>
    ELSE LET tokens == Split(Lower(BlankChars(text, LowerSet \cup UpperSet \cup SpaceSet)))
             seen == UNION {{Lower(w) : w \in Range(boards[r].keywords)} : r \in 1..Len(boards)}
             candidates == SortByLenDesc(KeepCandidates(tokens, seen))
         IN SubSeq(candidates, 1, IF Len(candidates) < count THEN Len(candidates) ELSE count)

extract_keywords(text, count) ==
    IF text = "" THEN <<>>
    ELSE LET tokens == Split(Lower(BlankChars(text, LowerSet \cup UpperSet \cup SpaceSet)))
             candidates == SortByLenDesc(KeepCandidates(tokens, {}))
         IN SubSeq(candidates, 1, IF Len(candidates) < count THEN Len(candidates) ELSE count)

\* line 464: bridge text if available, otherwise the first five paragraphs
SourceText(sub) ==
    IF sub.bridge_text # None /\ sub.bridge_text # Some("") THEN sub.bridge_text[1]
    ELSE IF Len(sub.paragraphs) > 0
         THEN Join("\n", SubSeq(sub.paragraphs, 1, IF Len(sub.paragraphs) < 5
                                                    THEN Len(sub.paragraphs) ELSE 5))
         ELSE ""

\* the keywords alone, with no default list
InitialOutliers_no_default(sub) == extract_keywords(SourceText(sub), 4)

\* lines 465-467
InitialOutliers(sub) ==
    LET OrDefault(outliers) ==
            IF Len(outliers) = 0 THEN <<"CLUE", "LEAD", "PROOF", "TRUTH">> ELSE outliers
    IN OrDefault(extract_keywords(SourceText(sub), 4))

DrawInto_unchecked(list, word) == Append(list, word)

\* a turn of a fill loop that appends no word
DrawInto_never(list, word) == list

\* lines 171-174 and 470-473: one turn of a fill loop with the word drawn
DrawInto(list, word) == IF word \notin Range(list) THEN Append(list, word) ELSE list

\* random.shuffle(grid) with the permutation perm of 1..len(grid) it draws
Shuffled(grid, perm) == [i \in 1..Len(grid) |-> grid[perm[i]]]

\* lines 477-494; "U+1F50E" stands for the one character of the icon
BoardOf(sub, outliers, grid) ==
    LET bridged == sub.bridge_text # None /\ sub.bridge_text # Some("")
        words == Split(sub.bridge_text[1])
        name == IF Len(words) > 3 THEN Upper(Join(" ", SubSeq(words, 1, 2)))
                ELSE Upper(sub.bridge_text[1])
        clean == Strip(KeepChars(name, UpperSet \cup SpaceSet))
        theme_name == IF bridged THEN SubSeq(clean, 1, IF Len(clean) < 15 THEN Len(clean) ELSE 15)
                      ELSE "INVESTIGATION"
        summary == IF bridged
                   THEN SubSeq(sub.bridge_text[1], 1, IF Len(sub.bridge_text[1]) < 100
                                                      THEN Len(sub.bridge_text[1]) ELSE 100) \o "..."
                   ELSE "Classified Intel"
    IN [outlierWords |-> outliers,
        grid |-> [r \in 1..4 |-> SubSeq(grid, 4 * (r - 1) + 1,
                                        IF Len(grid) < 4 * r THEN Len(grid) ELSE 4 * r)],
        outlierTheme |-> [name |-> theme_name, icon |-> "U+1F50E", summary |-> summary]]

----------------------------------------------------------------------------
(* Specification SpecPathKey: sanitize_path_key on bounded arguments, then *)
(* on its own result.                                                      *)

MaxFrags == 3

PathFragments ==
    <<"Path", "path", "Super-Path", "super-path", "-", " ", "A-F-L", "p", "ath", "b2", "!", "X">>

InitPathKey ==
    /\ \E t \in {None} \cup
               UNION {{Some(Join("", [i \in 1..n |-> PathFragments[ix[i]]])) :
                           ix \in [1..n -> 1..Len(PathFragments)]} : n \in 0..MaxFrags} :
            pathkey = [phase |-> "input", token |-> t, result |-> None, again |-> None]
    /\ casenum = Idle /\ doc = Idle /\ parser = Idle /\ boards = Idle /\ build = Idle /\ validator = Idle

\* result = sanitize_path_key(token)
Sanitize ==
    /\ pathkey.phase = "input"
    /\ pathkey' = [pathkey EXCEPT !.phase = "applied",
                                  !.result = Some(sanitize_path_key(pathkey.token))]
    /\ UNCHANGED <<casenum, doc, parser, boards, build, validator>>

\* again = sanitize_path_key(result), when the first call returned
SanitizeAgain ==
    /\ pathkey.phase = "applied"
    /\ pathkey.result[1].ok
    /\ pathkey' = [pathkey EXCEPT !.phase = "reapplied",
                                  !.again = Some(sanitize_path_key(Some(pathkey.result[1].val)))]
    /\ UNCHANGED <<casenum, doc, parser, boards, build, validator>>

NextPathKey == Sanitize \/ SanitizeAgain

SpecPathKey == InitPathKey /\ [][NextPathKey]_vars

\* C1 (as claimed): sanitize_path_key returns for every argument, and applying it
\* to its own result gives that result again.
C1_SanitizeIdempotent ==
    /\ pathkey.phase \in {"applied", "reapplied"} => pathkey.result[1].ok
    /\ pathkey.phase = "reapplied" => pathkey.again = pathkey.result

\* C2: "Path A-F-L" normalises to "AFL"; the empty string and None normalise to
\* the sentinel "ROOT".
C2_HyphenatedAndEmpty ==
    pathkey.phase \in {"applied", "reapplied"} =>
        /\ pathkey.token = Some("Path A-F-L") => pathkey.result = Some(Ok("AFL"))
        /\ pathkey.token = Some("") => pathkey.result = Some(Ok("ROOT"))
        /\ pathkey.token = None => pathkey.result = Some(Ok("ROOT"))

C2_Witness ==
    /\ pathkey.phase = "applied"
    /\ pathkey.token = Some("Path A-F-L")
    /\ pathkey.result = Some(Ok("AFL"))

----------------------------------------------------------------------------
(* CaseNumber formatting *)

CASE_LETTERS == <<"A", "B", "C">>

\* str(n) for n >= 0
RECURSIVE IntToStr(_)
IntToStr(n) == IF n < 10 THEN Ch(DigitChars, n + 1)
               ELSE IntToStr(n \div 10) \o Ch(DigitChars, (n % 10) + 1)

\* f"{n:03d}" and str(n).zfill(3), n >= 0: padded with zeros to at least 3 digits
ZeroPad3(n) ==
    LET d == IntToStr(n)
    IN IF Len(d) >= 3 THEN d ELSE SubSeq("000", 1, 3 - Len(d)) \o d

\* Subchapter.case_number
case_number_short_pad(sub) ==
    IF sub.index \notin DOMAIN CASE_LETTERS THEN Raise("ValueError")
    ELSE Ok(IntToStr(sub.chapter) \o CASE_LETTERS[sub.index])

case_number(sub) ==
    IF sub.index \notin DOMAIN CASE_LETTERS THEN Raise("ValueError")
    ELSE Ok(ZeroPad3(sub.chapter) \o CASE_LETTERS[sub.index])

----------------------------------------------------------------------------
(* Specification SpecCaseNumber: case_number on bounded Subchapters *)

MaxChapter == 12
MaxIndex == 4

InitCaseNumber ==
    /\ \E c \in 0..MaxChapter \cup {99, 100, 999, 1000}, i \in 0..MaxIndex :
            casenum = [phase |-> "input", chapter |-> c, index |-> i, result |-> None]
    /\ pathkey = Idle /\ doc = Idle /\ parser = Idle /\ boards = Idle /\ build = Idle /\ validator = Idle

CaseNumber ==
    /\ casenum.phase = "input"
    /\ casenum' = [casenum EXCEPT !.phase = "called",
                                  !.result = Some(case_number(casenum))]
    /\ UNCHANGED <<pathkey, doc, parser, boards, build, validator>>

NextCaseNumber == CaseNumber

SpecCaseNumber == InitCaseNumber /\ [][NextCaseNumber]_vars

\* C3: case_number is the chapter zero-padded to three digits followed by the
\* letter of the index (1 -> A, 2 -> B, 3 -> C); chapter 5 gives "005A" and "005B";
\* any other index raises and no case number is returned.
C3_CaseNumber ==
    casenum.phase = "called" =>
        LET r == casenum.result[1]
        IN /\ casenum.index \in {1, 2, 3} =>
                /\ r.ok
                /\ Len(r.val) >= 4
                /\ Ch(r.val, Len(r.val)) = (IF casenum.index = 1 THEN "A"
                                            ELSE IF casenum.index = 2 THEN "B" ELSE "C")
                /\ casenum.chapter < 1000 => Len(r.val) = 4
                /\ LET digits == SubSeq(r.val, 1, Len(r.val) - 1)
                   IN /\ \A k \in 1..Len(digits) : Ch(digits, k) \in DigitSet
                      /\ \E lead \in 0..3 :
                            /\ \A k \in 1..lead : Ch(digits, k) = "0"
                            /\ SubSeq(digits, lead + 1, Len(digits)) = IntToStr(casenum.chapter)
           /\ (casenum.chapter = 5 /\ casenum.index = 1) => r = Ok("005A")
           /\ (casenum.chapter = 5 /\ casenum.index = 2) => r = Ok("005B")
           /\ casenum.index \notin {1, 2, 3} => r = Raise("ValueError")

C3_Witness ==
    /\ casenum.phase = "called"
    /\ casenum.chapter = 5
    /\ casenum.index = 2
    /\ casenum.result = Some(Ok("005B"))

----------------------------------------------------------------------------
(* Specification SpecBoard: lines 462-494 for one Subchapter, one random draw *)
(* at a time.  SpecRepeat runs the generation a second time on the same    *)
(* Subchapter with the draws and the permutation of the first run.         *)

OUTLIER_COUNT == 4
GRID_COUNT == 16

\* A draw is "odd" when it is not the first filler word that the list lacks: a word
\* the list already holds (the loop draws again) or another missing word.
MaxOddDraws == 1

\* the outcomes of the random module over one call of parse_docx_file: the
\* words random.choice returns are FILLER_WORDS read round from `first` in
\* steps of `step`, and random.shuffle reverses the grid or leaves it
RandomSources ==
    {[first |-> 1, step |-> 1, reversed |-> FALSE],
     [first |-> Len(FILLER_WORDS), step |-> Len(FILLER_WORDS) - 1, reversed |-> TRUE]}

\* lines 469-473 and 171-174: a fill loop run to its end from the k-th draw, k from
\* 0, of random.choice(FILLER_WORDS); the list and the number of the next draw
RECURSIVE FillWith(_, _, _, _)
FillWith(list, count, src, k) ==
    LET word == FILLER_WORDS[((src.first - 1 + k * src.step) % Len(FILLER_WORDS)) + 1]
    IN IF Len(list) >= count THEN <<list, k>>
       ELSE FillWith(DrawInto(list, word), count, src, k + 1)

\* generate_grid(outliers) from the k-th draw: the grid and the next draw
generate_grid(outliers, src, k) ==
    LET Perm(n) == [i \in 1..n |-> IF src.reversed THEN n + 1 - i ELSE i]
        Grid(filled) == <<Shuffled(filled[1], Perm(Len(filled[1]))), filled[2]>>
    IN Grid(FillWith(outliers, GRID_COUNT, src, k))

\* entry[key] = value when the value is truthy
WithKey(entry, truthy, field) == IF truthy THEN entry @@ field ELSE entry

\* Subchapter.to_entry
to_entry(sub) ==
    LET entry == [chapter |-> sub.chapter, subchapter |-> sub.index, title |-> sub.title,
                  bridgeText |-> sub.bridge_text,
                  narrative |-> Strip(Join("\n\n", sub.paragraphs))]
        decided == WithKey(entry, sub.decision # None, [decision |-> sub.decision[1]])
        recapped == WithKey(decided, sub.previously # None /\ sub.previously # Some(""),
                            [previously |-> sub.previously[1]])
    IN WithKey(recapped, sub.board # None, [board |-> sub.board[1]])

\* inject_puzzles.py, update_story_narrative, lines 180-221: the entry with the
\* board made for it. extract_keywords, generate_grid, STOPWORDS and FILLER_WORDS
\* of inject_puzzles.py are those of build_story_content.py, statement for statement.
update_story_narrative(entry, src) ==
    LET bridge_text == IF entry.bridgeText = None THEN "" ELSE entry.bridgeText[1]
        Theme(words) ==
            LET name == IF Len(words) > 3 THEN Upper(Join(" ", SubSeq(words, 1, 2)))
                        ELSE Upper(bridge_text)
                clean == Strip(KeepChars(name, UpperSet \cup SpaceSet))
            IN IF bridge_text = "" THEN "INVESTIGATION"
               ELSE IF Len(clean) > 15 THEN SubSeq(clean, 1, 15) ELSE clean
        summary == IF Len(bridge_text) > 100 THEN SubSeq(bridge_text, 1, 100) \o "..."
                   ELSE bridge_text
        Board(outliers, grid) ==
            [outlierWords |-> outliers,
             grid |-> [r \in 1..4 |-> SubSeq(grid, 4 * (r - 1) + 1,
                                             IF Len(grid) < 4 * r THEN Len(grid) ELSE 4 * r)],
             outlierTheme |-> [name |-> Theme(Split(bridge_text)), icon |-> "U+1F50E",
                               summary |-> summary]]
        Filled(outliers) == Board(outliers[1], generate_grid(outliers[1], src, outliers[2])[1])
        Outliers(keywords) ==
            IF Len(keywords) = 0 THEN Filled(<<<<"CLUE", "LEAD", "PROOF", "TRUTH">>, 0>>)
            ELSE Filled(FillWith(keywords, 4, src, 0))
        Keywords(source_text) == Outliers(extract_keywords(source_text, 4))
    IN [k \in DOMAIN entry \cup {"board"} |->
            IF k = "board"
            THEN Keywords(IF bridge_text # "" THEN bridge_text ELSE entry.narrative)
            ELSE entry[k]]

BoardSub(bridge_text, paragraphs) ==
    [NewSubchapter(3, 1, "ROOT", "Intro", bridge_text) EXCEPT !.paragraphs = paragraphs]

BoardSubchapters ==
    {BoardSub(Some("The Grange ledger proves everything."), <<>>),
     BoardSub(Some("Lock the dock file."), <<>>),
     BoardSub(Some("Ledger, ledger: vault cipher archive manifest!"), <<>>),
     BoardSub(Some(""), <<>>),
     BoardSub(None, <<>>),
     BoardSub(None, <<"The rain fell.", "She waited by the pier.">>),
     BoardSub(None, <<"Go on.", "So it is.">>),
     BoardSub(Some(""), <<"A zinc coin.", "p2", "p3", "p4", "p5", "Unreachable sixth.">>)}

NewRun(sub) ==
    [phase |-> "start", sub |-> sub, keywords |-> <<>>, outliers |-> <<>>, grid |-> <<>>,
     draws |-> <<>>, odd |-> 0, perm |-> None, injected |-> None]

InitBoard ==
    /\ \E sub \in BoardSubchapters : boards = <<NewRun(sub)>>
    /\ pathkey = Idle /\ casenum = Idle /\ doc = Idle /\ parser = Idle /\ build = Idle /\ validator = Idle

Current == boards[Len(boards)]

\* the first (step 1 from 1) or the last (step -1 from the end) word of FILLER_WORDS
\* that list lacks
RECURSIVE MissingFiller(_, _, _)
MissingFiller(list, i, step) ==
    IF FILLER_WORDS[i] \notin Range(list) THEN FILLER_WORDS[i]
    ELSE MissingFiller(list, i + step, step)

\* the filler word that list holds last, at or before position i
RECURSIVE HeldFiller(_, _)
HeldFiller(list, i) ==
    IF i = 0 THEN {}
    ELSE IF list[i] \in Range(FILLER_WORDS) THEN {list[i]} ELSE HeldFiller(list, i - 1)

\* random.choice(FILLER_WORDS): in the first run any of the words above, within the
\* bound on odd draws; in a repeated run the word the first run drew at this place
Choices(list) ==
    IF Len(boards) = 1
    THEN {MissingFiller(list, 1, 1)} \cup
         (IF Current.odd < MaxOddDraws THEN HeldFiller(list, Len(list)) \cup {MissingFiller(list, Len(FILLER_WORDS), -1)} ELSE {})
    ELSE IF Len(Current.draws) < Len(boards[1].draws)
         THEN {boards[1].draws[Len(Current.draws) + 1]}
         ELSE {}

Drawn(run, list, word) ==
    [run EXCEPT !.draws = Append(@, word),
                !.odd = IF word = MissingFiller(list, 1, 1) THEN @ ELSE @ + 1]

\* the permutations random.shuffle may draw, of which the model takes three
ShufflePerms(n) ==
    IF Len(boards) = 1
    THEN {[i \in 1..n |-> i], [i \in 1..n |-> n + 1 - i], [i \in 1..n |-> (i % n) + 1]}
    ELSE {boards[1].perm[1]}

SetCurrent(run) == boards' = [boards EXCEPT ![Len(boards)] = run]

FrameBoards == UNCHANGED <<pathkey, casenum, doc, parser, build, validator>>

\* lines 464-467
ExtractOutliers ==
    /\ Current.phase = "start"
    /\ SetCurrent([Current EXCEPT !.phase = "backfill",
                                  !.keywords = extract_keywords(SourceText(Current.sub), OUTLIER_COUNT),
                                  !.outliers = InitialOutliers(Current.sub)])
    /\ FrameBoards

\* lines 470-473: one turn of the backfill loop
BackfillDraw ==
    /\ Current.phase = "backfill"
    /\ Len(Current.outliers) < OUTLIER_COUNT
    /\ \E w \in Choices(Current.outliers) :
            SetCurrent([Drawn(Current, Current.outliers, w) EXCEPT
                            !.outliers = DrawInto(Current.outliers, w)])
    /\ FrameBoards

\* line 475 and line 170: generate_grid starts from a copy of the outliers
StartGrid ==
    /\ Current.phase = "backfill"
    /\ Len(Current.outliers) >= OUTLIER_COUNT
    /\ SetCurrent([Current EXCEPT !.phase = "fill", !.grid = Current.outliers])
    /\ FrameBoards

\* lines 171-174: one turn of the grid loop
GridDraw ==
    /\ Current.phase = "fill"
    /\ Len(Current.grid) < GRID_COUNT
    /\ \E w \in Choices(Current.grid) :
            SetCurrent([Drawn(Current, Current.grid, w) EXCEPT
                            !.grid = DrawInto(Current.grid, w)])
    /\ FrameBoards

\* lines 175-176 and 477-494: shuffle, then the board is attached
AttachBoard ==
    /\ Current.phase = "fill"
    /\ Len(Current.grid) >= GRID_COUNT
    /\ \E perm \in ShufflePerms(Len(Current.grid)) :
            LET grid == Shuffled(Current.grid, perm)
            IN SetCurrent([Current EXCEPT
                    !.phase = "done", !.grid = grid, !.perm = Some(perm),
                    !.sub = [@ EXCEPT !.board = Some(BoardOf(Current.sub, Current.outliers, grid))]])
    /\ FrameBoards

\* a second run of lines 462-494 on the same Subchapter
Repeat ==
    /\ Len(boards) = 1
    /\ Current.phase = "done"
    /\ boards' = Append(boards, NewRun([Current.sub EXCEPT !.board = None]))
    /\ FrameBoards

\* inject_puzzles.py run on the entry the Subchapter serialises to: one turn of
\* the loop of lines 174-221
InjectPuzzles ==
    /\ Current.phase = "done"
    /\ \E src \in RandomSources :
            SetCurrent([Current EXCEPT
                    !.phase = "injected",
                    !.injected = Some(update_story_narrative(to_entry(Current.sub), src))])
    /\ FrameBoards

NextBoard ==
    ExtractOutliers \/ BackfillDraw \/ StartGrid \/ GridDraw \/ AttachBoard \/ InjectPuzzles

SpecBoard == InitBoard /\ [][NextBoard]_vars

NextRepeat == NextBoard \/ Repeat

SpecRepeat == InitBoard /\ [][NextRepeat]_vars

----------------------------------------------------------------------------
(* Specification SpecDraws: the two fill loops with draws that can repeat   *)
(* without bound. A run keeps the word drawn last instead of the list of    *)
(* its draws; random.choice is fair: a word the list lacks is drawn in the  *)
(* end.                                                                     *)

InitDraws ==
    /\ \E sub \in BoardSubchapters : boards = <<[word |-> None] @@ NewRun(sub)>>
    /\ pathkey = Idle /\ casenum = Idle /\ doc = Idle /\ parser = Idle /\ build = Idle /\ validator = Idle

\* random.choice(FILLER_WORDS): the first word of FILLER_WORDS that the list
\* lacks, the last two filler words it holds or, when an odd draw is open, the
\* last word of FILLER_WORDS that it lacks
AnyChoice(list, odd) ==
    {MissingFiller(list, 1, 1)}
    \cup HeldFiller(list, Len(list)) \cup HeldFiller(list, Len(list) - 1)
    \cup (IF odd THEN {MissingFiller(list, Len(FILLER_WORDS), -1)} ELSE {})

\* the run after the draw of word for list
Turned(run, list, word) ==
    [run EXCEPT !.word = Some(word),
                !.odd = IF word \in Range(list) \/ word = MissingFiller(list, 1, 1)
                        THEN @ ELSE @ + 1]

\* lines 470-473: one turn of the backfill loop, with any draw
BackfillTurn ==
    /\ Current.phase = "backfill"
    /\ Len(Current.outliers) < OUTLIER_COUNT
    /\ \E w \in AnyChoice(Current.outliers, Current.odd < MaxOddDraws) :
            SetCurrent([Turned(Current, Current.outliers, w) EXCEPT
                            !.outliers = DrawInto(Current.outliers, w)])
    /\ FrameBoards

\* lines 171-174: one turn of the grid loop, with any draw
GridTurn ==
    /\ Current.phase = "fill"
    /\ Len(Current.grid) < GRID_COUNT
    /\ \E w \in AnyChoice(Current.grid, Current.odd < MaxOddDraws) :
            SetCurrent([Turned(Current, Current.grid, w) EXCEPT
                            !.grid = DrawInto(Current.grid, w)])
    /\ FrameBoards

NextDraws == ExtractOutliers \/ BackfillTurn \/ StartGrid \/ GridTurn \/ AttachBoard

\* the grid loop is entered when the backfill loop is left, and random.choice is
\* fair: a turn of a loop that draws a word its list lacks comes in the end.
\* Nothing is assumed of the statements before the first and after the second loop.
SpecDraws ==
    /\ InitDraws /\ [][NextDraws]_vars
    /\ WF_vars(StartGrid)
    /\ WF_vars(BackfillTurn /\ Len(Current'.outliers) > Len(Current.outliers))
    /\ WF_vars(GridTurn /\ Len(Current'.grid) > Len(Current.grid))

\* C30: the backfill and the grid loop end under fair draws: a run in the
\* backfill loop comes to the grid loop with exactly 4 outlier words, a run in
\* the grid loop comes to the end of the loop with a grid of exactly 16 words,
\* pairwise distinct, that starts with the 4 outliers, whatever the outliers
\* are (filler words among them); while a loop runs FILLER_WORDS has enough
\* words its list lacks, and a turn that draws a word the list holds leaves
\* the list as it is.
C30_FillLoopsEnd ==
    /\ (Current.phase = "backfill") ~> (Current.phase = "fill" /\ Len(Current.outliers) = 4)
    /\ (Current.phase = "fill") ~>
            (/\ Len(Current.grid) = 16
             /\ Cardinality(Range(Current.grid)) = 16
             /\ SubSeq(Current.grid, 1, 4) = Current.outliers)
    /\ [](/\ Current.phase \in {"fill", "done"} =>
                /\ Len(Current.outliers) = 4
                /\ Cardinality(Range(Current.outliers)) = 4
                /\ Len(Current.grid) <= 16
          /\ (Current.phase = "backfill" /\ Len(Current.outliers) < 4) =>
                Cardinality(Range(FILLER_WORDS) \ Range(Current.outliers))
                    >= 4 - Len(Current.outliers)
          /\ (Current.phase = "fill" /\ Len(Current.grid) < 16) =>
                Cardinality(Range(FILLER_WORDS) \ Range(Current.grid)) >= 16 - Len(Current.grid))
    /\ [][(Current.phase = Current'.phase /\ Current'.word # None
                /\ Current'.word[1] \in Range(Current.outliers \o Current.grid)) =>
            /\ Current'.outliers = Current.outliers
            /\ Current'.grid = Current.grid]_vars

\* the grid loop, one word short of its end, has drawn a word the grid held,
\* with outliers that are filler words
C30_Witness ==
    /\ Current.phase = "fill"
    /\ Current.outliers = <<"LOCK", "DOCK", "FILE", "CASE">>
    /\ Len(Current.grid) = 15
    /\ Current.word = Some(Current.grid[14])

\* the words of the rows of a board, in order
GridWords(board) == board.grid[1] \o board.grid[2] \o board.grid[3] \o board.grid[4]

\* C7: every board attached to a Subchapter has exactly 4 outlier words, a grid of
\* exactly 4 rows of 4 words, no word twice in the grid, and its 4 outlier words in
\* the grid, whatever the source text and the words drawn.
C7_BoardInvariants ==
    \A r \in 1..Len(boards) :
        boards[r].sub.board # None =>
            LET board == boards[r].sub.board[1]
            IN /\ Len(board.outlierWords) = 4
               /\ Len(board.grid) = 4
               /\ \A k \in 1..4 : Len(board.grid[k]) = 4
               /\ Cardinality(Range(GridWords(board))) = 16
               /\ Range(board.outlierWords) \subseteq Range(GridWords(board))

\* a board whose outliers were backfilled and whose loops drew a word again
C7_Witness ==
    /\ Current.phase = "done"
    /\ Current.sub.board # None
    /\ Len(Current.keywords) \in 1..3
    /\ Len(Current.draws) > GRID_COUNT - Len(Current.keywords)

C19_DefaultOrBackfill ==
    /\ [](LET Default == <<"CLUE", "LEAD", "PROOF", "TRUTH">>
              Backfilled(keywords, outliers) ==
                /\ Len(outliers) <= 4
                /\ SubSeq(outliers, 1, Len(keywords)) = keywords
                /\ \A i \in (Len(keywords) + 1)..Len(outliers) :
                        /\ outliers[i] \in Range(FILLER_WORDS)
                        /\ \A j \in 1..(i - 1) : outliers[j] # outliers[i]
              Chosen(keywords, outliers, filled) ==
                /\ Len(keywords) = 0 => outliers = Default
                /\ Len(keywords) > 0 => Backfilled(keywords, outliers)
                /\ filled => Len(outliers) = 4
              Source(entry) == IF entry.bridgeText \notin {None, Some("")}
                               THEN entry.bridgeText[1] ELSE entry.narrative
          IN /\ Current.phase # "start" =>
                    /\ Chosen(extract_keywords(SourceText(Current.sub), 4), Current.outliers,
                              Current.phase # "backfill")
                    /\ (Current.phase = "backfill" /\ Current.keywords = <<>>)
                            => Current.draws = <<>>
             /\ Current.phase = "injected" =>
                    Chosen(extract_keywords(Source(Current.injected[1]), 4),
                           Current.injected[1].board.outlierWords, TRUE))
    /\ [][(Current.phase = "backfill" /\ Current'.phase = "backfill") =>
            LET word == Current'.draws[Len(Current'.draws)]
            IN /\ Len(Current.outliers) < 4
               /\ Current'.outliers = IF word \in Range(Current.outliers) THEN Current.outliers
                                      ELSE Append(Current.outliers, word)]_vars

\* a board of the default words, made without a draw for the outliers
C19_Witness ==
    /\ Current.phase = "injected"
    /\ Current.sub.paragraphs = <<"Go on.", "So it is.">>
    /\ Current.sub.board[1].outlierWords = <<"CLUE", "LEAD", "PROOF", "TRUTH">>
    /\ Current.injected[1].board.outlierWords = <<"CLUE", "LEAD", "PROOF", "TRUTH">>
    /\ Len(Current.draws) >= 12

\* C20: the summary of a board's theme is the bridge text when it has at most
\* 100 characters, its first 100 characters followed by "..." when it has more,
\* and "Classified Intel" when there is no bridge text; for the board attached
\* by parse_docx_file and for the board made by inject_puzzles.py.
C20_SummaryOfBridgeText ==
    LET Summary(bridge_text) ==
            IF bridge_text \in {None, Some("")} THEN "Classified Intel"
            ELSE IF Len(bridge_text[1]) > 100 THEN SubSeq(bridge_text[1], 1, 100) \o "..."
            ELSE bridge_text[1]
    IN /\ Current.sub.board # None =>
            Current.sub.board[1].outlierTheme.summary = Summary(Current.sub.bridge_text)
       /\ Current.injected # None =>
            Current.injected[1].board.outlierTheme.summary = Summary(Current.sub.bridge_text)

\* C23: extract_keywords(text, 4) is the reference: of the tokens of the text
\* in lower case with every non-letter made a space, those of 3 letters or more
\* that are no stopword and did not occur before are kept; they are ordered by
\* descending length, tokens of one length in their order in the text; the
\* first 4, in upper case, are the result, so it has at most 4 words, pairwise
\* distinct, of upper-case letters. For the keywords of parse_docx_file and for
\* those inject_puzzles.py puts first in the outlier words.
C23_KeywordsReference ==
    LET Reference(tokens) ==
            LET kept == {i \in 1..Len(tokens) :
                            /\ Len(tokens[i]) >= 3
                            /\ tokens[i] \notin STOPWORDS
                            /\ \A j \in 1..(i - 1) : tokens[j] # tokens[i]}
                Rank(i) == 1 + Cardinality({j \in kept :
                                \/ Len(tokens[j]) > Len(tokens[i])
                                \/ Len(tokens[j]) = Len(tokens[i]) /\ j < i})
            IN [r \in 1..(IF Cardinality(kept) < 4 THEN Cardinality(kept) ELSE 4) |->
                    Upper(tokens[CHOOSE i \in kept : Rank(i) = r])]
        Tokens(text) == Split(Lower(BlankChars(text, LowerSet \cup UpperSet \cup SpaceSet)))
        Source(entry) == IF entry.bridgeText \notin {None, Some("")}
                         THEN entry.bridgeText[1] ELSE entry.narrative
        Injected(reference, outliers) ==
            Len(reference) > 0 => SubSeq(outliers, 1, Len(reference)) = reference
    IN /\ Current.phase # "start" =>
            /\ Current.keywords = Reference(Tokens(SourceText(Current.sub)))
            /\ Len(Current.keywords) <= 4
            /\ \A i, j \in 1..Len(Current.keywords) :
                    Current.keywords[i] = Current.keywords[j] => i = j
            /\ \A i \in 1..Len(Current.keywords) : FullMatchClass(Current.keywords[i], UpperSet)
       /\ Current.phase = "injected" =>
            Injected(Reference(Tokens(Source(Current.injected[1]))),
                     Current.injected[1].board.outlierWords)

\* a text with a word twice, five candidates and two of one length
C23_Witness ==
    /\ Current.phase = "injected"
    /\ Current.sub.bridge_text = Some("Ledger, ledger: vault cipher archive manifest!")
    /\ Current.keywords = <<"MANIFEST", "ARCHIVE", "LEDGER", "CIPHER">>
    /\ Current.injected[1].board.outlierWords = <<"MANIFEST", "ARCHIVE", "LEDGER", "CIPHER">>

----------------------------------------------------------------------------
(* parse_docx_file as a whole: the boards of lines 462-494 drawn from a     *)
(* source of random outcomes, and the entry a Subchapter serialises to.     *)

\* lines 462-494: the boards of the Subchapters, in order, from the k-th draw
RECURSIVE GenerateBoards(_, _, _)
GenerateBoards(subs, src, k) ==
    LET Boarded(sub, outliers, grid) ==
            <<[sub EXCEPT !.board = Some(BoardOf(sub, outliers[1], grid[1]))]>>
                \o GenerateBoards(Tail(subs), src, grid[2])
        Backfilled(sub, outliers) ==
            Boarded(sub, outliers, generate_grid(outliers[1], src, outliers[2]))
    IN IF Len(subs) = 0 THEN <<>>
       ELSE Backfilled(subs[1], FillWith(InitialOutliers(subs[1]), OUTLIER_COUNT, src, k))

\* parse_docx_file after its loop: lines 442-496
Finish(ps, src) ==
    LET closed == EndOfParagraphs(ps)
    IN IF closed.phase = "raised" THEN closed
       ELSE [closed EXCEPT !.phase = "returned",
                           !.subchapters = GenerateBoards(closed.subchapters, src, 0)]

\* the loop of lines 342-440 over the paragraphs, left when a line raises
RECURSIVE ParseParagraphs(_, _)
ParseParagraphs(ps, paragraphs) ==
    IF Len(paragraphs) = 0 \/ ps.phase = "raised" THEN ps
    ELSE ParseParagraphs(ParseParagraph(ps, paragraphs[1]), Tail(paragraphs))

\* parse_docx_file(path) for the file of stem `stem` with these paragraphs: the
\* Subchapters it returns, or the exception it raises
parse_docx_file(stem, paragraphs, src) ==
    LET Result(ps) == IF ps.phase = "raised" THEN Raise(ps.error[1]) ELSE Ok(ps.subchapters)
        Parsed(key) ==
            IF ~key.ok THEN Raise(key.val)
            ELSE Result(Finish(ParseParagraphs(NewParser(key.val), paragraphs), src))
    IN Parsed(derive_path_key_from_filename(stem))

----------------------------------------------------------------------------
(* Specification SpecParse: parse_docx_file reading a document paragraph by *)
(* paragraph. A document is a file name and paragraphs; the documents are   *)
(* those of a few families, each a file name, opening paragraphs and the    *)
(* texts its further paragraphs are taken from.                             *)

MaxParagraphs == 4

DocFamilies ==
    << \* narrative: chapter line, headers, story lines, a recap line
       [stem |-> "Chapter 3", opening |-> <<"Chapter 3">>,
        texts |-> {"Subchapter 3.1 - Intro", "Subchapter 4.2 - Next",
                   "Subchapter 3.2 - The Previously Unseen File",
                   "The rain fell.", "  She waited by the dock.  ", "PREVIOUSLY: She ran."}],
       \* recaps, bridge text and lines that are skipped
       [stem |-> "Chapter 2 A-F", opening |-> <<"Chapter 2">>,
        texts |-> {"Subchapter 2.1 - Intro", "Bridge Text: \"Lock the dock file.\"",
                   "Previously", "previously... \"He lied.\"", "PUZZLE UNLOCKED", "   "}],
       \* the decision block and where it is attached
       [stem |-> "Chapter 1", opening |-> <<"Chapter 1", "Subchapter 1.1 - Start">>,
        texts |-> {"Subchapter 1.3 - End", "[DECISION POINT]", "$$OPTION A: \"Stay\"",
                   "Choose wisely.", "END CHAPTER 1", "OPTION: bad"}],
       \* the lines of an option
       [stem |-> "Chapter 1",
        opening |-> <<"Chapter 1", "Subchapter 1.3 - End", "$$DECISION POINT$$",
                      "OPTION A: \"Take the case\"">>,
        texts |-> {"Outcome: go to Chapter 4, Path FOO", "Also mentions Chapter 9, Path BAR",
                   "Consequence: It rains.", "Stats: +1 Grit",
                   "OPTION B: Walk away", "Return to Chapter 0, Path X", "Leads to 5B"}],
       \* no chapter line unless one is read
       [stem |-> "Notes", opening |-> <<>>,
        texts |-> {"Subchapter 7.1 - Cold Open", "[DECISION POINT]", "OPTION A: Wait",
                   "chapter 7", "Take Chapter 4 Path - the road", "Subchapter two"}],
       \* several bridge texts before a header
       [stem |-> "Chapter 2", opening |-> <<"Chapter 2">>,
        texts |-> {"Subchapter 2.1 - Intro", "Bridge Text: \"Lock the dock file.\"",
                   "Bridge Text: Burn it."}],
       \* several headers of one option
       [stem |-> "Chapter 1",
        opening |-> <<"Chapter 1", "Subchapter 1.1 - Start", "[DECISION POINT]">>,
        texts |-> {"$$OPTION A: \"Stay\"", "OPTION A: Go", "Consequence: It rains."}] >>

InitParse ==
    /\ \E f \in 1..Len(DocFamilies) :
            doc = [family |-> f, stem |-> DocFamilies[f].stem, paragraphs |-> <<>>]
    /\ parser = [phase |-> "opening"]
    /\ pathkey = Idle /\ casenum = Idle /\ boards = Idle /\ build = Idle /\ validator = Idle

\* line 330: path_key = derive_path_key_from_filename(path), then the locals
OpenDocument ==
    /\ parser.phase = "opening"
    /\ LET key == derive_path_key_from_filename(doc.stem)
       IN parser' = IF key.ok THEN NewParser(key.val)
                    ELSE [phase |-> "raised", error |-> Some(key.val)]
    /\ UNCHANGED <<pathkey, casenum, doc, boards, build, validator>>

\* one turn of the loop of lines 342-440 on the next paragraph of the document,
\* one of those a document of the family can have next
ReadParagraph ==
    /\ parser.phase = "reading"
    /\ \E text \in LET family == DocFamilies[doc.family]
                       read == Len(doc.paragraphs)
                   IN IF read < Len(family.opening) THEN {family.opening[read + 1]}
                      ELSE IF read < Len(family.opening) + MaxParagraphs
                           THEN family.texts ELSE {} :
            /\ doc' = [doc EXCEPT !.paragraphs = Append(@, text)]
            /\ parser' = ParseParagraph(parser, text)
    /\ UNCHANGED <<pathkey, casenum, boards, build, validator>>

\* the document has no further paragraph: lines 442-496
EndOfDocument ==
    /\ parser.phase = "reading"
    /\ \E src \in RandomSources : parser' = Finish(parser, src)
    /\ UNCHANGED <<pathkey, casenum, doc, boards, build, validator>>

NextParse == OpenDocument \/ ReadParagraph \/ EndOfDocument

SpecParse == InitParse /\ [][NextParse]_vars

\* the paragraphs as the loop sees them (line 343)
RECURSIVE StripAll(_)
StripAll(paragraphs) ==
    IF Len(paragraphs) = 0 THEN <<>>
    ELSE <<Strip(paragraphs[1])>> \o StripAll(Tail(paragraphs))

IsDecisionMarker(line) == line \in {"[DECISION POINT]", "$$DECISION POINT$$"}

\* the rule of lines 344-386 that takes a line, by the order of the rules;
\* first says that no chapter number has been read before it
KindOf(line, first) ==
    IF line = "" THEN "blank"
    ELSE IF extract_previously_block(line) # None THEN "recap"
    ELSE IF ChapterLineMatch(line) # None /\ first THEN "chapter"
    ELSE IF StartsWith(line, "PUZZLE") THEN "puzzle"
    ELSE IF StartsWith(line, "Bridge Text:") THEN "bridge"
    ELSE IF StartsWith(line, "Subchapter") THEN "header"
    ELSE IF IsDecisionMarker(line) THEN "marker"
    ELSE "other"

\* the rule that takes each line of lines
RECURSIVE KindsOf(_, _)
KindsOf(lines, first) ==
    IF Len(lines) = 0 THEN <<>>
    ELSE LET kind == KindOf(lines[1], first)
         IN <<kind>> \o KindsOf(Tail(lines), first /\ kind # "chapter")

\* the positions, in order, of the lines of a set of positions
RECURSIVE Positions(_, _)
Positions(n, keep) ==
    IF n = 0 THEN <<>>
    ELSE IF n \in keep THEN Append(Positions(n - 1, keep), n) ELSE Positions(n - 1, keep)

\* the lines at the positions from..to that fall to the narrative rule
RECURSIVE StoryLines(_, _, _, _)
StoryLines(lines, kinds, from, to) ==
    IF from > to THEN <<>>
    ELSE IF kinds[from] = "other"
    THEN <<lines[from]>> \o StoryLines(lines, kinds, from + 1, to)
    ELSE StoryLines(lines, kinds, from + 1, to)

\* C4 (as claimed): a document with a line "Chapter N", k lines that are
\* well-formed "Subchapter N.M" headers and no decision marker is parsed to
\* exactly k Subchapters, in the order of the header lines, with chapter N
\* and the index M of their header.
C4_AsClaimed ==
    LET lines == StripAll(doc.paragraphs)
        all == 1..Len(lines)
        headers == Positions(Len(lines), {i \in all : StartsWith(lines[i], "Subchapter")})
    IN (/\ parser.phase \in {"returned", "raised"}
        /\ \E i \in all : ChapterLineMatch(lines[i]) # None
        /\ \A i \in all : StartsWith(lines[i], "Subchapter") => SubchapterMatch(lines[i]) # None
        /\ \A i \in all : ~IsDecisionMarker(lines[i]))
       => /\ parser.phase = "returned"
          /\ Len(parser.subchapters) = Len(headers)
          /\ \A k \in 1..Len(headers) :
                parser.subchapters[k].index = SubchapterMatch(lines[headers[k]])[1][2]

\* C4 (amended): with the lines of the document taken by the rules in their
\* order (a line with the recap keyword and text after it is a recap line,
\* whatever else it looks like): a document with a chapter line, k header
\* lines, all well-formed, and no decision marker is parsed to exactly k
\* Subchapters in the order of the header lines; each has the chapter number of
\* the chapter line and the index of its header, its paragraphs are the
\* narrative lines from its header to the next, its entry's narrative is those
\* lines joined by "\n\n", and its entry has no decision.
C4_NarrativeDocument ==
    LET lines == StripAll(doc.paragraphs)
        all == 1..Len(lines)
        kinds == KindsOf(lines, TRUE)
        headers == Positions(Len(lines), {i \in all : kinds[i] = "header"})
        chapter == CHOOSE i \in all : kinds[i] = "chapter"
        until(k) == IF k < Len(headers) THEN headers[k + 1] - 1 ELSE Len(lines)
    IN (/\ parser.phase \in {"returned", "raised"}
        /\ \A i \in all : ~IsDecisionMarker(lines[i])
        /\ \E i \in all : kinds[i] = "chapter"
        /\ \A i \in all : kinds[i] = "header" => SubchapterMatch(lines[i]) # None)
       => /\ parser.phase = "returned"
          /\ Len(parser.subchapters) = Len(headers)
          /\ doc.paragraphs = <<"Chapter 3", "Subchapter 3.1 - Intro", "The rain fell.",
                                "  She waited by the dock.  ">>
                => /\ Len(parser.subchapters) = 1
                   /\ parser.subchapters[1].chapter = 3
                   /\ parser.subchapters[1].index = 1
                   /\ to_entry(parser.subchapters[1]).narrative =
                            "The rain fell.\n\nShe waited by the dock."
          /\ \A k \in 1..Len(headers) :
                LET sub == parser.subchapters[k]
                    story == StoryLines(lines, kinds, headers[k] + 1, until(k))
                IN /\ sub.chapter = ChapterLineMatch(lines[chapter])[1]
                   /\ sub.index = SubchapterMatch(lines[headers[k]])[1][2]
                   /\ sub.paragraphs = story
                   /\ to_entry(sub).narrative = Join("\n\n", story)
                   /\ "decision" \notin DOMAIN to_entry(sub)

\* two Subchapters returned, the first with a narrative line, the second with
\* the chapter number of the chapter line and not of its own header
C4_Witness ==
    /\ parser.phase = "returned"
    /\ doc.paragraphs = <<"Chapter 3", "Subchapter 3.1 - Intro", "The rain fell.",
                          "Subchapter 4.2 - Next">>
    /\ Len(parser.subchapters) = 2
    /\ parser.subchapters[1].paragraphs = <<"The rain fell.">>
    /\ parser.subchapters[2].chapter = 3

\* C5: of the Subchapters parse_docx_file returns, only the last can carry a
\* decision (as a field and in its entry), and it does when the document has a
\* decision marker.
C5_DecisionOnLast ==
    parser.phase = "returned" =>
        LET subs == parser.subchapters
            lines == StripAll(doc.paragraphs)
        IN /\ \A k \in 1..Len(subs) :
                (subs[k].decision # None \/ "decision" \in DOMAIN to_entry(subs[k]))
                    => k = Len(subs)
           /\ (Len(subs) > 0 /\ \E i \in 1..Len(lines) : IsDecisionMarker(lines[i]))
                    => /\ subs[Len(subs)].decision # None
                       /\ "decision" \in DOMAIN to_entry(subs[Len(subs)])

\* two Subchapters and then a decision block: the decision is on the second
C5_Witness ==
    /\ parser.phase = "returned"
    /\ Len(parser.subchapters) = 2
    /\ parser.subchapters[1].decision = None
    /\ parser.subchapters[2].decision # None
    /\ Len(parser.subchapters[2].decision[1].options) > 0

OptionTarget(option) == <<option.next_chapter, option.next_path_key>>

\* C6: the target of an option is that of the first of its lines a target is
\* extracted from: a later line with a chapter and a path does not replace it,
\* and the lines "Outcome: go to Chapter 4, Path FOO" and then "Also mentions
\* Chapter 9, Path BAR" of an option give it the target (4, "FOO").
C6_FirstTargetWins ==
    /\ [][(/\ parser.phase = "reading" /\ parser'.phase = "reading"
            /\ parser.current_option # None /\ parser'.current_option # None
            /\ parser'.decision_section = parser.decision_section) =>
            LET before == parser.current_option[1]
                after == parser'.current_option[1]
                line == Strip(doc'.paragraphs[Len(doc'.paragraphs)])
            IN /\ before.next_chapter # None => OptionTarget(after) = OptionTarget(before)
               /\ (before.next_chapter = None /\ after.next_chapter # None)
                    => <<after.next_chapter, after.next_path_key[1]>> = extract_target(line).val]_vars
    /\ [](LET n == Len(doc.paragraphs)
          IN (/\ parser.phase = "reading" /\ n >= 3
              /\ OptionMatch(Replace(Strip(doc.paragraphs[n - 2]), "$$OPTION", "OPTION")) # None
              /\ doc.paragraphs[n - 1] = "Outcome: go to Chapter 4, Path FOO"
              /\ doc.paragraphs[n] = "Also mentions Chapter 9, Path BAR"
              /\ parser.current_option # None)
             => OptionTarget(parser.current_option[1]) = <<Some(4), Some("FOO")>>)

\* an option with the target (4, "FOO") that has read the line with (9, "BAR")
C6_Witness ==
    /\ parser.phase = "reading"
    /\ parser.current_option # None
    /\ OptionTarget(parser.current_option[1]) = <<Some(4), Some("FOO")>>
    /\ "Also mentions Chapter 9, Path BAR" \in Range(parser.current_option[1].raw_lines)

\* C12: in every decision option, nextChapter and nextPathKey are both present
\* or both absent: in the option being read, in the options of the open
\* decision section and in the serialized options of the returned Subchapters,
\* at every point of the parse.
C12_TargetPaired ==
    parser.phase \in {"reading", "raised", "returned"} /\ "subchapters" \in DOMAIN parser =>
        LET Paired(option) ==
                /\ (option.next_chapter = None) <=> (option.next_path_key = None)
                /\ (to_dict(option).nextChapter = None) <=> (to_dict(option).nextPathKey = None)
            Serialized(dict) == (dict.nextChapter = None) <=> (dict.nextPathKey = None)
        IN /\ parser.current_option # None => Paired(parser.current_option[1])
           /\ parser.decision_section # None =>
                \A k \in 1..Len(parser.decision_section[1].options) :
                    Paired(parser.decision_section[1].options[k])
           /\ parser.phase = "returned" =>
                \A i \in 1..Len(parser.subchapters) :
                    parser.subchapters[i].decision # None =>
                        \A k \in 1..Len(parser.subchapters[i].decision[1].options) :
                            Serialized(parser.subchapters[i].decision[1].options[k])

\* a returned decision with one option that has a target and one that has none
C12_Witness ==
    /\ parser.phase = "returned"
    /\ Len(parser.subchapters) = 1
    /\ parser.subchapters[1].decision # None
    /\ LET options == parser.subchapters[1].decision[1].options
       IN /\ Len(options) = 2
          /\ options[1].nextChapter = Some(4) /\ options[1].nextPathKey = Some("FOO")
          /\ options[2].nextChapter = None /\ options[2].nextPathKey = None

\* C16: parse_docx_file returns Subchapters only for a document one of whose
\* lines starts with the chapter marker; for a document without such a line the
\* end of the paragraphs raises ValueError, whatever headers and decision lines
\* were read.
C16_NoChapterLineRaises ==
    /\ [](parser.phase = "returned" =>
            \E i \in 1..Len(doc.paragraphs) : ChapterLineMatch(Strip(doc.paragraphs[i])) # None)
    /\ [][(/\ parser.phase = "reading" /\ doc' = doc
            /\ \A i \in 1..Len(doc.paragraphs) : ChapterLineMatch(Strip(doc.paragraphs[i])) = None)
            => (parser'.phase = "raised" /\ parser'.error = Some("ValueError"))]_vars

\* a header and a decision block without a chapter line, read to the end
C16_Witness ==
    /\ doc.paragraphs = <<"Subchapter 7.1 - Cold Open", "[DECISION POINT]", "OPTION A: Wait">>
    /\ parser.phase = "raised"
    /\ parser.error = Some("ValueError")
    /\ parser.current_option # None

\* C17: extract_target returns (None, None) for a line in which no chapter
\* number is found: whenever a line of an open option goes through
\* extract_target and is kept as a detail of the option, a result without a
\* chapter has no path key either.
C17_NoChapterNoTarget ==
    [][(/\ parser.phase = "reading" /\ parser'.phase = "reading"
        /\ Len(doc'.paragraphs) = Len(doc.paragraphs) + 1
        /\ parser.current_option # None /\ parser'.current_option # None
        /\ parser'.current_option[1].raw_lines =
                Append(parser.current_option[1].raw_lines,
                       Strip(doc'.paragraphs[Len(doc'.paragraphs)])))
        => LET \* the pair returned: the chapter, None or Some(number), and the
               \* path key, which line 305 makes a str in every case: Some(key)
               Returned(target) ==
                    target.ok /\ target.val[1] = None
                        => <<target.val[1], Some(target.val[2])>> = <<None, None>>
           IN Returned(extract_target(Strip(doc'.paragraphs[Len(doc'.paragraphs)])))]_vars

\* C18: parse_docx_file does not return normally with a decision dropped: when
\* a decision marker was read (a decision section is open at the end of the
\* paragraphs) the call returns only if there is a Subchapter to carry it.
C18_DecisionNeverDropped ==
    (parser.phase = "returned" /\ parser.decision_section # None)
        => /\ Len(parser.subchapters) > 0
           /\ parser.subchapters[Len(parser.subchapters)].decision # None

\* C21: when an option header recurs with a key already used in the decision
\* block, the last one wins: the block has one option for the key, and it
\* carries the title of the later header.
C21_LastOptionHeaderWins ==
    parser.phase = "returned" =>
        \A k \in 1..Len(parser.subchapters) :
            parser.subchapters[k].decision # None =>
                LET options == parser.subchapters[k].decision[1].options
                IN \A i, j \in 1..Len(options) : options[i].key = options[j].key => i = j

\* C22: in the entry of a returned Subchapter an optional field (bridge text,
\* recap, decision, board) that is absent is left out: the entry has the key
\* exactly when the Subchapter has a value for it, and no key holds None.
C22_AbsentFieldsOmitted ==
    parser.phase = "returned" =>
        \A k \in 1..Len(parser.subchapters) :
            LET sub == parser.subchapters[k]
                entry == to_entry(sub)
            IN /\ "bridgeText" \in DOMAIN entry <=> sub.bridge_text # None
               /\ "previously" \in DOMAIN entry <=> sub.previously \notin {None, Some("")}
               /\ "decision" \in DOMAIN entry <=> sub.decision # None
               /\ "board" \in DOMAIN entry <=> sub.board # None
               /\ "bridgeText" \in DOMAIN entry => entry.bridgeText # None

\* C24: a pending bridge text or recap is attached to the next Subchapter
\* opened after the line that set it and is then cleared: each returned
\* Subchapter has the bridge text of the last "Bridge Text:" line, and the recap
\* of the last recap line, between the header before its own (or the start of
\* the document) and its own header, and none when there is no such line; so
\* the Subchapter open when the line is read does not get it, no two
\* Subchapters get it, and of several "Bridge Text:" lines the last wins.
C24_PendingAttachedToNext ==
    LET Attached(lines, kinds, headers) ==
            LET Last(kind, k) ==
                    {i \in (IF k = 1 THEN 1 ELSE headers[k - 1] + 1)..(headers[k] - 1) :
                        /\ kinds[i] = kind
                        /\ \A j \in (i + 1)..(headers[k] - 1) : kinds[j] # kind}
            IN /\ Len(parser.subchapters) = Len(headers)
               /\ \A k \in 1..Len(headers) :
                    LET sub == parser.subchapters[k]
                    IN /\ Last("bridge", k) = {} => sub.bridge_text = None
                       /\ \A i \in Last("bridge", k) :
                            sub.bridge_text =
                                Some(StripChars(Strip(AfterFirst(lines[i], "Bridge Text:")),
                                                {"\""}))
                       /\ Last("recap", k) = {} => sub.previously = None
                       /\ \A i \in Last("recap", k) :
                            sub.previously = extract_previously_block(lines[i])
        Kinded(lines, kinds) ==
            Attached(lines, kinds,
                     Positions(Len(lines), {i \in 1..Len(lines) : kinds[i] = "header"}))
        Stripped(lines) == Kinded(lines, KindsOf(lines, TRUE))
    IN parser.phase = "returned" =>
           /\ Stripped(StripAll(doc.paragraphs))
           /\ doc.paragraphs = <<"Chapter 2", "Bridge Text: \"Lock the dock file.\"",
                                 "Bridge Text: Burn it.", "Subchapter 2.1 - Intro",
                                 "Subchapter 2.1 - Intro">>
                => /\ parser.subchapters[1].bridge_text = Some("Burn it.")
                   /\ parser.subchapters[2].bridge_text = None
           /\ doc.paragraphs = <<"Chapter 2", "Subchapter 2.1 - Intro",
                                 "previously... \"He lied.\"", "Subchapter 2.1 - Intro",
                                 "Subchapter 2.1 - Intro">>
                => /\ parser.subchapters[1].previously = None
                   /\ parser.subchapters[2].previously = Some("... \"He lied.")
                   /\ parser.subchapters[3].previously = None

\* two "Bridge Text:" lines, then two headers
C24_Witness ==
    /\ parser.phase = "returned"
    /\ doc.paragraphs = <<"Chapter 2", "Bridge Text: \"Lock the dock file.\"",
                          "Bridge Text: Burn it.", "Subchapter 2.1 - Intro",
                          "Subchapter 2.1 - Intro">>
    /\ parser.subchapters[1].bridge_text = Some("Burn it.")

\* C25: a line that contains the keyword PREVIOUSLY, in any case, is consumed by
\* the recap rule and falls through to no other rule: reading it leaves the
\* narrative paragraphs of the open Subchapter, the closed Subchapters, the
\* intro lines of the decision, the open option and the chapter number as
\* they were.
C25_RecapLineConsumed ==
    [][(/\ parser.phase = "reading"
        /\ Len(doc'.paragraphs) = Len(doc.paragraphs) + 1
        /\ Contains(Upper(Strip(doc'.paragraphs[Len(doc'.paragraphs)])), "PREVIOUSLY"))
       => /\ parser'.phase = "reading"
          /\ parser'.current_sub = parser.current_sub
          /\ parser'.subchapters = parser.subchapters
          /\ parser'.decision_section = parser.decision_section
          /\ parser'.current_option = parser.current_option
          /\ parser'.chapter_number = parser.chapter_number]_vars

\* C27 (as claimed): once a decision marker has been read no later line is
\* appended to a narrative, and a Subchapter whose header follows the marker
\* ends with no narrative paragraph and is the one the decision is attached to.
C27_AsClaimed ==
    LET After(lines, kinds) ==
            LET headers == Positions(Len(lines), {i \in 1..Len(lines) : kinds[i] = "header"})
            IN \A k \in 1..Len(headers) :
                    (\E m \in 1..(headers[k] - 1) : kinds[m] = "marker")
                        => /\ parser.subchapters[k].paragraphs = <<>>
                           /\ parser.subchapters[k].decision # None
        Stripped(lines) == After(lines, KindsOf(lines, TRUE))
    IN parser.phase = "returned" => Stripped(StripAll(doc.paragraphs))

\* C27 (amended): once a decision marker has been read the decision context
\* stays open while the document is read, and no line read after it is
\* appended to a narrative: a step of the loop leaves the paragraphs of every
\* Subchapter as they were and opens a Subchapter with none. In the result a
\* Subchapter whose header follows a marker has no narrative paragraph, and
\* the decision is attached to the last Subchapter of the document alone:
\* to a Subchapter opened after the marker only when no header follows it.
C27_NarrativeClosedByMarker ==
    /\ [][(parser.phase = "reading" /\ parser.decision_section # None
                /\ parser'.phase = "reading") =>
            LET Narratives(ps) ==
                    [k \in 1..Len(ps.subchapters) |-> ps.subchapters[k].paragraphs]
                    \o (IF ps.current_sub # None THEN <<ps.current_sub[1].paragraphs>> ELSE <<>>)
                Kept(before, after) ==
                    /\ Len(after) >= Len(before)
                    /\ \A k \in 1..Len(after) :
                            after[k] = IF k <= Len(before) THEN before[k] ELSE <<>>
            IN /\ parser'.decision_section # None
               /\ Kept(Narratives(parser), Narratives(parser'))]_vars
    /\ [](LET After(lines, kinds) ==
                LET headers == Positions(Len(lines), {i \in 1..Len(lines) : kinds[i] = "header"})
                IN \A k \in 1..Len(headers) :
                        (\E m \in 1..(headers[k] - 1) : kinds[m] = "marker")
                            => /\ parser.subchapters[k].paragraphs = <<>>
                               /\ parser.subchapters[k].decision # None <=> k = Len(headers)
               Stripped(lines) == After(lines, KindsOf(lines, TRUE))
           IN parser.phase = "returned" =>
                /\ Stripped(StripAll(doc.paragraphs))
                /\ doc.paragraphs = <<"Chapter 1", "Subchapter 1.1 - Start", "[DECISION POINT]",
                                      "Subchapter 1.3 - End", "Choose wisely.">>
                        => /\ parser.subchapters[2].paragraphs = <<>>
                           /\ parser.subchapters[2].decision[1].intro = <<"Choose wisely.">>
                           /\ parser.subchapters[1].decision = None)

\* a header after the marker, then a line that is no option
C27_Witness ==
    /\ parser.phase = "returned"
    /\ doc.paragraphs = <<"Chapter 1", "Subchapter 1.1 - Start", "[DECISION POINT]",
                          "Subchapter 1.3 - End", "Choose wisely.">>
    /\ parser.subchapters[2].paragraphs = <<>>
    /\ parser.subchapters[2].decision # None

\* C28: while an option is open, a line that reaches the decision rules and is
\* no Consequence:/Focus:/Stats:/Outcome: line and no END CHAPTER or [PATH line
\* does exactly one of two things: it sets the target of the option, which had
\* none, to a chapter that is not 0, or it is appended to the detail lines of
\* the option and leaves the target as it was.
C28_TargetOrDetail ==
    [][(/\ parser.phase = "reading"
        /\ Len(doc'.paragraphs) = Len(doc.paragraphs) + 1
        /\ parser.decision_section # None
        /\ parser.current_option # None
        /\ LET line == Strip(doc'.paragraphs[Len(doc'.paragraphs)])
           IN /\ KindOf(line, parser.chapter_number = None) = "other"
              /\ \A prefix \in {"OPTION", "$$OPTION", "Consequence:", "Focus:", "Stats:",
                                  "Outcome:", "END CHAPTER", "[PATH"} : ~StartsWith(line, prefix))
       => /\ parser'.phase = "reading"
          /\ parser'.current_option # None
          /\ LET line == Strip(doc'.paragraphs[Len(doc'.paragraphs)])
                 before == parser.current_option[1]
                 after == parser'.current_option[1]
             IN \/ /\ before.next_chapter = None
                   /\ after.next_chapter \notin {None, Some(0)}
                   /\ after.next_path_key # None
                   /\ after.raw_lines = before.raw_lines
                \/ /\ after.next_chapter = before.next_chapter
                   /\ after.next_path_key = before.next_path_key
                   /\ after.raw_lines = Append(before.raw_lines, line)]_vars

----------------------------------------------------------------------------
(* Specification SpecBuild: build_story_dataset over a directory of         *)
(* documents, one document per step.                                        *)

\* the characters of the file names, in the order of their code points
CodeOrder == " -.0123456789ABCDEFGHIJKLMNOPQRSTUVWXYZabcdefghijklmnopqrstuvwxyz"

\* a < b for two strings, as sorted() compares the names of the paths
RECURSIVE StrLess(_, _)
StrLess(a, b) ==
    LET CodeOf(c) == CHOOSE k \in 1..Len(CodeOrder) : Ch(CodeOrder, k) = c IN
    IF Len(b) = 0 THEN FALSE
    ELSE IF Len(a) = 0 THEN TRUE
    ELSE IF Ch(a, 1) # Ch(b, 1) THEN CodeOf(Ch(a, 1)) < CodeOf(Ch(b, 1))
    ELSE StrLess(SubSeq(a, 2, Len(a)), SubSeq(b, 2, Len(b)))

FileName(stem) == stem \o ".docx"

\* sorted(...) of a set of stems, by file name
RECURSIVE SortedStems(_)
SortedStems(stems) ==
    IF stems = {} THEN <<>>
    ELSE LET least == CHOOSE x \in stems :
                        \A y \in stems \ {x} : StrLess(FileName(x), FileName(y))
         IN <<least>> \o SortedStems(stems \ {least})

\* lines 502-504: the documents build_story_dataset reads, in order
doc_paths(stems) == SortedStems({x \in stems : ~Contains(FileName(x), "old-story")})

\* {} of Python
EmptyDict == [k \in {} |-> k]

\* the loop over the Subchapters of one document where a pair already stored
\* keeps its entry
RECURSIVE InsertSubchapters_keeps_first(_, _, _)
InsertSubchapters_keeps_first(state, subs, stem) ==
    IF Len(subs) = 0 THEN state
    ELSE LET sub == subs[1]
             entry == to_entry(sub)
             case == case_number(sub)
             case_bucket == IF case.val \in DOMAIN state.case_content
                            THEN state.case_content[case.val] ELSE EmptyDict
             key == sub.path_key
             warned == IF key \in DOMAIN case_bucket
                       THEN Append(state.printed, [kind |-> "Warning", case |-> case.val,
                                                   path |-> key, file |-> FileName(stem)])
                       ELSE state.printed
         IN IF ~case.ok
            THEN [state EXCEPT !.printed = Append(@, [kind |-> "Error", file |-> FileName(stem),
                                                      error |-> case.val])]
            ELSE InsertSubchapters_keeps_first(
                    [state EXCEPT !.case_content = (case.val :> (case_bucket @@ (key :> entry))) @@ @,
                                  !.printed = warned],
                    Tail(subs), stem)

\* lines 509-517: the loop over the Subchapters of one document; state holds
\* case_content and the lines printed, and the loop is left when case_number raises
RECURSIVE InsertSubchapters(_, _, _)
InsertSubchapters(state, subs, stem) ==
    IF Len(subs) = 0 THEN state
    ELSE LET sub == subs[1]
             entry == to_entry(sub)
             case == case_number(sub)
             case_bucket == IF case.val \in DOMAIN state.case_content
                            THEN state.case_content[case.val] ELSE EmptyDict
             key == sub.path_key
             warned == IF key \in DOMAIN case_bucket
                       THEN Append(state.printed, [kind |-> "Warning", case |-> case.val,
                                                   path |-> key, file |-> FileName(stem)])
                       ELSE state.printed
         IN IF ~case.ok
            THEN [state EXCEPT !.printed = Append(@, [kind |-> "Error", file |-> FileName(stem),
                                                      error |-> case.val])]
            ELSE InsertSubchapters(
                    [state EXCEPT !.case_content = (case.val :> ((key :> entry) @@ case_bucket)) @@ @,
                                  !.printed = warned],
                    Tail(subs), stem)

MaxExtraDocs == 1

\* a line of an option that names Chapter 2 and the path `letter`, in one of the
\* three ways a style writes it
TargetLine(style, letter) ==
    IF style.target = 1 THEN "Outcome: go to Chapter 2, Path " \o letter
    ELSE IF style.target = 2 THEN "Leads to Chapter 2: " \o letter
    ELSE "Continue with \"" \o letter \o "\" in Chapter 2"

\* Chapter 1.docx: subchapters 1.1, 1.2, 1.3, then a decision with two options
ChapterOne(style) ==
    <<"Chapter 1",
      "Subchapter 1.1 - Arrival", "The rain fell on the harbor.",
      "Subchapter 1.2 - The Ledger", "The Grange ledger proves everything.",
      "Subchapter 1.3 - Crossroads", "  She waited by the dock.  ",
      IF style.dollar THEN "$$DECISION POINT$$" ELSE "[DECISION POINT]",
      "Choose wisely.",
      (IF style.dollar THEN "$$OPTION A: " ELSE "OPTION A: ") \o "\"Follow the money\"",
      TargetLine(style, "A"),
      (IF style.dollar THEN "$$OPTION B: " ELSE "OPTION B: ") \o "Tail the witness",
      "Consequence: The trail goes cold.",
      TargetLine(style, "B")>>

\* Chapter 2 <letter>.docx: subchapters 2.1, 2.2, 2.3
ChapterTwo(style, letter) ==
    <<"Chapter 2">>
    \o (IF style.bridged THEN <<"Bridge Text: \"Lock the dock file.\"">> ELSE <<>>)
    \o <<"Subchapter 2.1 - Road " \o letter, "He drove north.",
         "Subchapter 2.2 - Motel " \o letter, "PREVIOUSLY: She ran.", "The sign flickered.",
         "Subchapter 2.3 - Dawn " \o letter, "Nothing moved.">>

\* further documents a directory can hold
ExtraDocuments ==
    << \* the path A a second time
       [stem |-> "Chapter 2 a",
        paragraphs |-> <<"Chapter 2", "Subchapter 2.1 - Detour", "He drove south.",
                         "Subchapter 2.1 - Again", "He drove back.">>],
       \* a path token of hyphens only
       [stem |-> "Chapter 5 -",
        paragraphs |-> <<"Chapter 5", "Subchapter 5.1 - Lost", "No road.">>],
       \* a fourth subchapter
       [stem |-> "Chapter 3 A",
        paragraphs |-> <<"Chapter 3", "Subchapter 3.1 - One", "First.",
                         "Subchapter 3.4 - Four", "Fourth.", "Subchapter 3.2 - Two", "Second.">>],
       \* a document of the old story
       [stem |-> "old-story Chapter 1",
        paragraphs |-> <<"Chapter 1", "Subchapter 1.1 - Old", "Long ago.">>],
       \* no chapter line
       [stem |-> "Notes",
        paragraphs |-> <<"Subchapter 7.1 - Cold Open", "The phone rang.">>],
       \* a chapter number of four digits
       [stem |-> "Chapter 1000",
        paragraphs |-> <<"Chapter 1000", "Subchapter 1000.1 - Far", "Far away.">>],
       \* a malformed header, in the first file of the directory
       [stem |-> "Chapter 1 A",
        paragraphs |-> <<"Chapter 1", "Subchapter one - Intro", "It began.">>],
       \* a header with the number of another chapter
       [stem |-> "Chapter 4",
        paragraphs |-> <<"Chapter 4", "Subchapter 9.1 - Misfiled", "Wrong drawer.",
                         "Subchapter 4.2 - Filed", "Right drawer.">>] >>

\* the documents of a directory: stem -> paragraphs
Corpus(style, extras) ==
    [x \in {"Chapter 1", "Chapter 2 A", "Chapter 2 B"} \cup {ExtraDocuments[i].stem : i \in extras} |->
        IF x = "Chapter 1" THEN ChapterOne(style)
        ELSE IF x = "Chapter 2 A" THEN ChapterTwo(style, "A")
        ELSE IF x = "Chapter 2 B" THEN ChapterTwo(style, "B")
        ELSE ExtraDocuments[CHOOSE i \in extras : ExtraDocuments[i].stem = x].paragraphs]

InitBuild ==
    /\ \E style \in [dollar : BOOLEAN, target : 1..3, bridged : BOOLEAN] :
       \E extras \in {e \in SUBSET (1..Len(ExtraDocuments)) : Cardinality(e) <= MaxExtraDocs} :
            build = [phase |-> "start", extras |-> extras, docs |-> Corpus(style, extras),
                     pending |-> <<>>, case_content |-> EmptyDict, printed |-> <<>>]
    /\ pathkey = Idle /\ casenum = Idle /\ doc = Idle /\ parser = Idle /\ boards = Idle /\ validator = Idle

\* lines 500-504
ListDocuments ==
    /\ build.phase = "start"
    /\ build' = [build EXCEPT !.phase = "building", !.pending = doc_paths(DOMAIN build.docs)]
    /\ UNCHANGED <<pathkey, casenum, doc, parser, boards, validator>>

\* one turn of the loop over the documents where an exception ends the loop
ProcessDocument_stops_at_error ==
    /\ build.phase = "building"
    /\ Len(build.pending) > 0
    /\ \E src \in RandomSources :
        LET stem == build.pending[1]
            rest == [build EXCEPT !.pending = Tail(@)]
            Inserted(state) ==
                [rest EXCEPT !.case_content = state.case_content, !.printed = state.printed,
                             !.pending = IF Len(state.printed) > 0
                                            /\ state.printed[Len(state.printed)].kind = "Error"
                                         THEN <<>> ELSE @]
            Processed(subchapters) ==
                IF ~subchapters.ok
                THEN [rest EXCEPT !.pending = <<>>,
                                  !.printed = Append(@, [kind |-> "Error", file |-> FileName(stem),
                                                         error |-> subchapters.val])]
                ELSE Inserted(InsertSubchapters(
                                [case_content |-> build.case_content, printed |-> build.printed],
                                subchapters.val, stem))
        IN build' = Processed(parse_docx_file(stem, build.docs[stem], src))
    /\ UNCHANGED <<pathkey, casenum, doc, parser, boards, validator>>

\* lines 506-519: one turn of the loop over the documents
ProcessDocument ==
    /\ build.phase = "building"
    /\ Len(build.pending) > 0
    /\ \E src \in RandomSources :
        LET stem == build.pending[1]
            rest == [build EXCEPT !.pending = Tail(@)]
            Inserted(state) == [rest EXCEPT !.case_content = state.case_content,
                                            !.printed = state.printed]
            Processed(subchapters) ==
                IF ~subchapters.ok
                THEN [rest EXCEPT !.printed = Append(@, [kind |-> "Error", file |-> FileName(stem),
                                                         error |-> subchapters.val])]
                ELSE Inserted(InsertSubchapters(
                                [case_content |-> build.case_content, printed |-> build.printed],
                                subchapters.val, stem))
        IN build' = Processed(parse_docx_file(stem, build.docs[stem], src))
    /\ UNCHANGED <<pathkey, casenum, doc, parser, boards, validator>>

\* line 521: return {"caseContent": case_content}
ReturnDataset ==
    /\ build.phase = "building"
    /\ Len(build.pending) = 0
    /\ build' = [build EXCEPT !.phase = "done"]
    /\ UNCHANGED <<pathkey, casenum, doc, parser, boards, validator>>

NextBuild == ListDocuments \/ ProcessDocument \/ ReturnDataset

SpecBuild == InitBuild /\ [][NextBuild]_vars

\* C9: built from the three documents Chapter 1.docx (subchapters 1.1, 1.2, 1.3
\* and a decision with two options naming Chapter 2 and the paths A and B),
\* Chapter 2 A.docx and Chapter 2 B.docx (subchapters 2.1 to 2.3 each), the
\* graph has the keys 001A, 001B, 001C, each with the one path ROOT, and 002A,
\* 002B, 002C, each with the two paths A and B, and the decision of 001C/ROOT
\* has two options with nextChapter 2 and nextPathKey "A" and "B" in this order.
C9_ThreeDocuments ==
    (build.phase = "done" /\ build.extras = {}) =>
        LET graph == build.case_content
            options == graph["001C"]["ROOT"].decision.options
        IN /\ DOMAIN graph = {"001A", "001B", "001C", "002A", "002B", "002C"}
           /\ \A case \in {"001A", "001B", "001C"} : DOMAIN graph[case] = {"ROOT"}
           /\ \A case \in {"002A", "002B", "002C"} : DOMAIN graph[case] = {"A", "B"}
           /\ "decision" \in DOMAIN graph["001C"]["ROOT"]
           /\ Len(options) = 2
           /\ options[1].nextChapter = Some(2) /\ options[1].nextPathKey = Some("A")
           /\ options[2].nextChapter = Some(2) /\ options[2].nextPathKey = Some("B")
           /\ build.printed = <<>>

\* the graph of the three documents, returned
C9_Witness ==
    /\ build.phase = "done"
    /\ build.extras = {}
    /\ DOMAIN build.case_content["002C"] = {"A", "B"}
    /\ build.case_content["002B"]["B"].title = "Motel B"
    /\ Len(build.case_content["001C"]["ROOT"].decision.options) = 2

\* C11: every key of caseContent produced by build_story_dataset is exactly
\* three digits followed by A, B or C, whatever chapter number the documents'
\* chapter lines give.
C11_ThreeDigitKeys ==
    \A case \in DOMAIN build.case_content :
        /\ Len(case) = 4
        /\ \A k \in 1..3 : Ch(case, k) \in DigitSet
        /\ Ch(case, 4) \in {"A", "B", "C"}

\* C13: the documents are read in the order of their sorted file names; when a
\* document produces a pair (case number, path key) that the graph already holds
\* or that it produced before, a duplicate warning naming the pair and the file
\* is printed, once for every repeat and in order, the loop goes on to the next
\* document, and the entry stored under a pair is the one produced last (the
\* Subchapters of a document are produced up to the first whose case number
\* raises). With
\* "Chapter 2 a.docx" (subchapter 2.1 twice) beside "Chapter 2 A.docx" the pair
\* 002A/A has two warnings and holds the entry of the last header.
C13_DuplicateWarned ==
    /\ [][(build.phase = "building" /\ Len(build.pending) > 0) =>
            LET stem == build.pending[1]
                Pair(sub) == <<case_number(sub).val, sub.path_key>>
                Stored(pair) == pair[1] \in DOMAIN build.case_content
                                    /\ pair[2] \in DOMAIN build.case_content[pair[1]]
                Warnings(printed) == SelectSeq(printed, LAMBDA line : line.kind = "Warning")
                Produced(subs, n) ==
                    LET repeats == {k \in 1..n : Stored(Pair(subs[k]))
                                                    \/ \E j \in 1..(k - 1) : Pair(subs[j]) = Pair(subs[k])}
                        warnings == Warnings(SubSeq(build'.printed, Len(build.printed) + 1,
                                                    Len(build'.printed)))
                        Nth(i) == CHOOSE k \in repeats : Cardinality({j \in repeats : j < k}) = i - 1
                    IN /\ Len(warnings) = Cardinality(repeats)
                       /\ \A i \in 1..Len(warnings) :
                            warnings[i] = [kind |-> "Warning", case |-> Pair(subs[Nth(i)])[1],
                                           path |-> Pair(subs[Nth(i)])[2], file |-> FileName(stem)]
                       /\ \A k \in 1..n :
                            (\A j \in (k + 1)..n : Pair(subs[j]) # Pair(subs[k])) =>
                                build'.case_content[Pair(subs[k])[1]][Pair(subs[k])[2]] = to_entry(subs[k])
                       /\ build'.phase = "building"
                       /\ build'.pending = Tail(build.pending)
                Inserted(subs) ==
                    CHOOSE n \in 0..Len(subs) :
                        /\ \A k \in 1..n : case_number(subs[k]).ok
                        /\ n < Len(subs) => ~case_number(subs[n + 1]).ok
            IN \E src \in RandomSources :
                    LET subchapters == parse_docx_file(stem, build.docs[stem], src)
                    IN subchapters.ok => Produced(subchapters.val, Inserted(subchapters.val))]_vars
    /\ [](build.phase = "building" =>
            \A i \in 1..(Len(build.pending) - 1) :
                StrLess(FileName(build.pending[i]), FileName(build.pending[i + 1])))
    /\ []((build.phase = "done" /\ build.extras = {1}) =>
            /\ build.printed = <<[kind |-> "Warning", case |-> "002A", path |-> "A",
                                  file |-> "Chapter 2 a.docx"],
                                 [kind |-> "Warning", case |-> "002A", path |-> "A",
                                  file |-> "Chapter 2 a.docx"]>>
            /\ build.case_content["002A"]["A"].title = "Again")

\* the build of a directory with "Chapter 2 a.docx" has ended with two warnings
C13_Witness ==
    /\ build.phase = "done"
    /\ build.extras = {1}
    /\ Len(build.printed) = 2
    /\ build.printed[2].kind = "Warning"
    /\ build.case_content["002A"]["A"].title = "Again"
    /\ build.case_content["002B"]["A"].title = "Motel A"

\* C14: a document whose processing raises (no chapter number, a malformed
\* header, a subchapter index outside 1..3) is skipped: the step that prints its
\* error leaves the graph as it was, with no entry of that document.
C14_FailedDocumentSkipped ==
    [][(/\ build.phase = "building"
        /\ Len(build'.printed) > Len(build.printed)
        /\ build'.printed[Len(build'.printed)].kind = "Error")
            => build'.case_content = build.case_content]_vars

\* C15: a document that raises does not end the build and is not silent: every
\* document of the directory (the old story aside) is listed, the turn of the
\* loop that reads a document that raises prints an error line naming its file
\* and leaves the documents after it to be read; the turn of a document that does
\* not raise puts its entries into the graph, whatever was read before it;
\* no turn takes a pair out of the graph. With a first file that raises, the
\* graph returned holds the entries of the three documents after it.
C15_ErrorsPrintedBuildGoesOn ==
    /\ [][(build.phase = "building" /\ Len(build.pending) > 0) =>
            LET stem == build.pending[1]
                Failed(subchapters) ==
                    \/ ~subchapters.ok
                    \/ \E k \in 1..Len(subchapters.val) : ~case_number(subchapters.val[k]).ok
                Inserted(subs) ==
                    \A k \in 1..Len(subs) :
                        /\ case_number(subs[k]).val \in DOMAIN build'.case_content
                        /\ subs[k].path_key \in DOMAIN build'.case_content[case_number(subs[k]).val]
                Turn(subchapters) ==
                    IF Failed(subchapters)
                    THEN /\ Len(build'.printed) > Len(build.printed)
                         /\ build'.printed[Len(build'.printed)] =
                                [kind |-> "Error", file |-> FileName(stem),
                                 error |-> build'.printed[Len(build'.printed)].error]
                    ELSE Inserted(subchapters.val)
            IN /\ build'.phase = "building"
               /\ build'.pending = Tail(build.pending)
               /\ \A case \in DOMAIN build.case_content :
                    /\ case \in DOMAIN build'.case_content
                    /\ DOMAIN build.case_content[case] \subseteq DOMAIN build'.case_content[case]
               /\ \E src \in RandomSources : Turn(parse_docx_file(stem, build.docs[stem], src))]_vars
    /\ [][build.phase = "start" =>
            Range(build'.pending) = {stem \in DOMAIN build.docs : ~Contains(stem, "old-story")}]_vars
    /\ []((build.phase = "done" /\ build.extras = {7}) =>
            /\ build.printed = <<[kind |-> "Error", file |-> "Chapter 1 A.docx",
                                  error |-> "ValueError"]>>
            /\ DOMAIN build.case_content = {"001A", "001B", "001C", "002A", "002B", "002C"})

\* the first file of the directory raised and the three after it are in the graph
C15_Witness ==
    /\ build.phase = "done"
    /\ build.extras = {7}
    /\ build.printed = <<[kind |-> "Error", file |-> "Chapter 1 A.docx", error |-> "ValueError"]>>
    /\ DOMAIN build.case_content = {"001A", "001B", "001C", "002A", "002B", "002C"}
    /\ DOMAIN build.case_content["002C"] = {"A", "B"}

\* C26: every Subchapter that parse_docx_file returns has the chapter number of
\* the document's chapter line, whatever number its own header carries, and the
\* path key of the file name; so every entry of the graph has the chapter and
\* subchapter that format to the case number it is stored under, and the
\* entries of one document have one chapter and are stored under one path key.
\* The document "Chapter 4" with the headers 9.1 and 4.2 gives the cases 004A
\* and 004B and no case of chapter 9.
C26_ChapterOfDocument ==
    /\ [](\A case \in DOMAIN build.case_content :
            \A key \in DOMAIN build.case_content[case] :
                LET entry == build.case_content[case][key]
                IN /\ entry.subchapter \in DOMAIN CASE_LETTERS
                   /\ case = ZeroPad3(entry.chapter) \o CASE_LETTERS[entry.subchapter])
    /\ [][(build.phase = "building" /\ Len(build.pending) > 0) =>
            LET stem == build.pending[1]
                lines == StripAll(build.docs[stem])
                Returned(subs, kinds) ==
                    \A k \in 1..Len(subs) :
                        /\ \E i \in 1..Len(lines) :
                                /\ kinds[i] = "chapter"
                                /\ subs[k].chapter = ChapterLineMatch(lines[i])[1]
                        /\ subs[k].path_key = derive_path_key_from_filename(stem).val
                        /\ (\A j \in 1..k : case_number(subs[j]).ok) =>
                                LET case == case_number(subs[k]).val
                                IN /\ case \in DOMAIN build'.case_content
                                   /\ subs[k].path_key \in DOMAIN build'.case_content[case]
                                   /\ build'.case_content[case][subs[k].path_key].chapter
                                        = subs[1].chapter
                Turn(subchapters) == subchapters.ok => Returned(subchapters.val, KindsOf(lines, TRUE))
            IN \E src \in RandomSources : Turn(parse_docx_file(stem, build.docs[stem], src))]_vars
    /\ []((build.phase = "done" /\ build.extras = {8}) =>
            /\ DOMAIN build.case_content =
                    {"001A", "001B", "001C", "002A", "002B", "002C", "004A", "004B"}
            /\ build.case_content["004A"]["ROOT"].chapter = 4
            /\ build.case_content["004A"]["ROOT"].title = "Misfiled")

\* the document whose first header carries the number 9 is in the graph as chapter 4
C26_Witness ==
    /\ build.phase = "done"
    /\ build.extras = {8}
    /\ "004A" \in DOMAIN build.case_content
    /\ build.case_content["004A"]["ROOT"].title = "Misfiled"

----------------------------------------------------------------------------
(* Specification SpecValidate: validate_story_graph.main walking a graph,   *)
(* one turn of its loop per step.                                           *)

MaxOptions == 1

\* f"{str(chapter).zfill(3)}{letter}"
CaseOf(chapter, letter) == ZeroPad3(chapter) \o letter

\* f"{case} missing path '{path_key}'"
MissingPath(case, path_key) == case \o " missing path '" \o path_key \o "'"

\* key in case_content[case], for a case that may be absent
HasPath(case_content, case, path_key) ==
    case \in DOMAIN case_content /\ path_key \in DOMAIN case_content[case]

\* the check of subchapter 1 with a fallback to ROOT in every chapter
MissingA_fallback_everywhere(case_content, chapter, path_key) ==
    LET case_a == CaseOf(chapter, "A")
    IN IF HasPath(case_content, case_a, path_key) THEN <<>>
       ELSE IF HasPath(case_content, case_a, "ROOT") THEN <<>>
       ELSE <<MissingPath(case_a, path_key)>>

\* lines 46-64: what the check of subchapter 1 appends to missing_entries
MissingA(case_content, chapter, path_key) ==
    LET case_a == CaseOf(chapter, "A")
    IN IF HasPath(case_content, case_a, path_key) THEN <<>>
       ELSE IF HasPath(case_content, case_a, "ROOT")
       THEN (IF chapter > 1 THEN <<MissingPath(case_a, path_key)>> ELSE <<>>)
       ELSE <<MissingPath(case_a, path_key)>>

\* lines 67-71 and 74-80: the same of subchapters 2 and 3
MissingLater(case_content, chapter, path_key, letter) ==
    LET case == CaseOf(chapter, letter)
    IN IF HasPath(case_content, case, path_key) THEN <<>>
       ELSE IF chapter > 1 THEN <<MissingPath(case, path_key)>> ELSE <<>>

\* line 91: if next_chapter and next_path
Resolved(opt) ==
    LET get(name) == IF name \in DOMAIN opt THEN opt[name] ELSE None
    IN /\ get("nextChapter") # None /\ get("nextChapter")[1] # 0
       /\ get("nextPathKey") # None /\ get("nextPathKey")[1] # ""

\* lines 87-97: the targets the options add to the queue
RECURSIVE Links(_)
Links(options) ==
    IF Len(options) = 0 THEN <<>>
    ELSE (IF Resolved(options[1])
          THEN <<<<options[1].nextChapter[1], options[1].nextPathKey[1]>>>> ELSE <<>>)
         \o Links(Tail(options))

\* lines 87-97: what the options add to broken_links
RECURSIVE BrokenOptions(_, _, _)
BrokenOptions(options, chapter, path_key) ==
    IF Len(options) = 0 THEN <<>>
    ELSE (IF ~Resolved(options[1]) /\ chapter < 12
          THEN <<CaseOf(chapter, "C") \o " (" \o path_key \o ") option '" \o options[1].key
                    \o "' missing nextChapter/nextPathKey">>
          ELSE <<>>)
         \o BrokenOptions(Tail(options), chapter, path_key)

\* entry_c.get('decision') with a list of options, or None
DecisionOf(entry) ==
    IF "decision" \in DOMAIN entry /\ "options" \in DOMAIN entry.decision
    THEN Some(entry.decision) ELSE None

\* the options a third subchapter can have: None for no decision block, and <<>>
\* for an option without a target
LinkChoices ==
    LET targets == {<<1, "ROOT">>, <<1, "X">>, <<2, "A">>, <<2, "X">>, <<>>}
    IN {None} \cup {Some(t) : t \in UNION {[1..n -> targets] : n \in 0..MaxOptions}}

\* the option of key `key` as the builder writes it
GraphOption(key, target) ==
    to_dict(IF target = <<>> THEN NewDecisionOption(key, "Go")
            ELSE SetTarget(NewDecisionOption(key, "Go"), <<Some(target[1]), target[2]>>))

\* an entry as the builder writes it, with the options of `links`
GraphEntry(chapter, index, path_key, links) ==
    LET sub == NewSubchapter(chapter, index, path_key, "Title", None)
        decision == [intro |-> <<>>,
                     options |-> [k \in 1..Len(links[1]) |->
                                    GraphOption(CASE_LETTERS[((k - 1) % 3) + 1], links[1][k])]]
    IN to_entry([sub EXCEPT !.decision = IF links = None THEN None ELSE Some(decision)])

\* caseContent with chapter 1 on the paths root_paths (001C on ROOT alone) and
\* chapter 2 on the paths two_paths (002C on A, when two_c)
Graph(root_paths, two_paths, two_c, links_one, links_two) ==
    LET cases == (IF root_paths = {} THEN {} ELSE {"001A", "001B"}) \cup {"001C"}
                 \cup (IF two_paths = {} THEN {} ELSE {"002A", "002B"})
                 \cup (IF two_c THEN {"002C"} ELSE {})
    IN [case \in cases |->
            IF case = "001C" THEN [k \in {"ROOT"} |-> GraphEntry(1, 3, k, links_one)]
            ELSE IF case = "002C" THEN [k \in {"A"} |-> GraphEntry(2, 3, k, links_two)]
            ELSE IF case = "001A" THEN [k \in root_paths |-> GraphEntry(1, 1, k, None)]
            ELSE IF case = "001B" THEN [k \in root_paths |-> GraphEntry(1, 2, k, None)]
            ELSE IF case = "002A" THEN [k \in two_paths |-> GraphEntry(2, 1, k, None)]
            ELSE [k \in two_paths |-> GraphEntry(2, 2, k, None)]]

\* lines 23-30: the graph is loaded and the queue holds chapter 1, ROOT
InitValidate ==
    /\ \E root_paths \in {{}, {"ROOT"}, {"ROOT", "X"}} :
       \E two_paths \in {{}, {"ROOT"}, {"A"}} :
       \E two_c \in BOOLEAN :
       \E links_one \in LinkChoices :
       \E links_two \in LinkChoices :
            validator = [phase |-> "walking",
                         case_content |-> Graph(root_paths, two_paths, two_c, links_one, links_two),
                         queue |-> <<<<1, "ROOT">>>>, visited |-> {},
                         missing_entries |-> <<>>, broken_links |-> <<>>]
    /\ pathkey = Idle /\ casenum = Idle /\ doc = Idle /\ parser = Idle /\ boards = Idle /\ build = Idle

\* one turn of the loop that does not record the pair it examines
VisitNext_unmarked ==
    /\ validator.phase = "walking"
    /\ Len(validator.queue) > 0
    /\ LET chapter == validator.queue[1][1]
           path_key == validator.queue[1][2]
           case_content == validator.case_content
           case_c == CaseOf(chapter, "C")
           entry_c == IF HasPath(case_content, case_c, path_key)
                      THEN Some(case_content[case_c][path_key]) ELSE None
           decision == IF entry_c = None THEN None ELSE DecisionOf(entry_c[1])
           popped == [validator EXCEPT !.queue = Tail(@)]
       IN validator' =
            [popped EXCEPT
                !.missing_entries = @ \o MissingA(case_content, chapter, path_key)
                                      \o MissingLater(case_content, chapter, path_key, "B")
                                      \o MissingLater(case_content, chapter, path_key, "C"),
                !.queue = IF decision = None THEN @ ELSE @ \o Links(decision[1].options),
                !.broken_links =
                    IF entry_c = None THEN @
                    ELSE IF decision # None
                    THEN @ \o BrokenOptions(decision[1].options, chapter, path_key)
                    ELSE IF chapter < 12
                    THEN Append(@, case_c \o " (" \o path_key \o ") missing decision block")
                    ELSE @]
    /\ UNCHANGED <<pathkey, casenum, doc, parser, boards, build>>

\* lines 34-101: one turn of the loop
VisitNext ==
    /\ validator.phase = "walking"
    /\ Len(validator.queue) > 0
    /\ LET chapter == validator.queue[1][1]
           path_key == validator.queue[1][2]
           state_id == "Ch" \o IntToStr(chapter) \o "-" \o path_key
           case_content == validator.case_content
           case_c == CaseOf(chapter, "C")
           entry_c == IF HasPath(case_content, case_c, path_key)
                      THEN Some(case_content[case_c][path_key]) ELSE None
           decision == IF entry_c = None THEN None ELSE DecisionOf(entry_c[1])
           popped == [validator EXCEPT !.queue = Tail(@)]
       IN validator' =
            IF state_id \in validator.visited THEN popped
            ELSE [popped EXCEPT
                    !.visited = @ \cup {state_id},
                    !.missing_entries = @ \o MissingA(case_content, chapter, path_key)
                                          \o MissingLater(case_content, chapter, path_key, "B")
                                          \o MissingLater(case_content, chapter, path_key, "C"),
                    !.queue = IF decision = None THEN @ ELSE @ \o Links(decision[1].options),
                    !.broken_links =
                        IF entry_c = None THEN @
                        ELSE IF decision # None
                        THEN @ \o BrokenOptions(decision[1].options, chapter, path_key)
                        ELSE IF chapter < 12
                        THEN Append(@, case_c \o " (" \o path_key \o ") missing decision block")
                        ELSE @]
    /\ UNCHANGED <<pathkey, casenum, doc, parser, boards, build>>

\* lines 103-120: the queue is empty and the lists are printed
PrintReport ==
    /\ validator.phase = "walking"
    /\ Len(validator.queue) = 0
    /\ validator' = [validator EXCEPT !.phase = "reported"]
    /\ UNCHANGED <<pathkey, casenum, doc, parser, boards, build>>

NextValidate == VisitNext \/ PrintReport

SpecValidate == InitValidate /\ [][NextValidate]_vars

\* main is one sequential loop: while it can take a turn, or print the report,
\* it does
SpecValidateRun == InitValidate /\ [][NextValidate]_vars /\ WF_vars(NextValidate)

\* the resolved targets of the options the walk has reached
ReachedTargets ==
    UNION {LET case_c == CaseOf(chapter, "C")
               entry == validator.case_content[case_c][path_key]
           IN IF /\ ("Ch" \o IntToStr(chapter) \o "-" \o path_key) \in validator.visited
                 /\ HasPath(validator.case_content, case_c, path_key)
                 /\ DecisionOf(entry) # None
              THEN Range(Links(entry.decision.options)) ELSE {}
           : <<chapter, path_key>> \in (1..2) \X {"ROOT", "A", "X"}}

\* C10 (as claimed): when the walk from chapter 1, ROOT is over, every resolved
\* target (nextChapter, nextPathKey) of an option it reached that has no entry
\* at the first case of nextChapter has a missing-entry line with that case and
\* path in the report.
C10_AsClaimed ==
    validator.phase = "reported" =>
        \A target \in ReachedTargets :
            ~HasPath(validator.case_content, CaseOf(target[1], "A"), target[2])
                => MissingPath(CaseOf(target[1], "A"), target[2])
                        \in Range(validator.missing_entries)

\* C10 (amended): the same, except that a target in chapter 1 is not reported
\* when case 001A has an entry on the path ROOT (the fallback the validator
\* allows in chapter 1); every other target without an entry is reported.
C10_MissingEntryReported ==
    validator.phase = "reported" =>
        \A target \in ReachedTargets :
            LET case_a == CaseOf(target[1], "A")
                fallback == target[1] = 1 /\ HasPath(validator.case_content, case_a, "ROOT")
            IN /\ (~HasPath(validator.case_content, case_a, target[2]) /\ ~fallback)
                    => MissingPath(case_a, target[2]) \in Range(validator.missing_entries)
               /\ (~HasPath(validator.case_content, case_a, target[2]) /\ fallback)
                    => MissingPath(case_a, target[2]) \notin Range(validator.missing_entries)

\* the walk is over, it reached an option with the target (2, "X"), 002A has
\* the path ROOT alone, and the report names 002A and X
C10_Witness ==
    /\ validator.phase = "reported"
    /\ <<2, "X">> \in ReachedTargets
    /\ HasPath(validator.case_content, "002A", "ROOT")
    /\ "002A missing path 'X'" \in Range(validator.missing_entries)

\* C29: the walk of the validator ends on every graph, also when the targets
\* form a cycle or point back to an earlier chapter: the report is reached;
\* a turn of the loop examines a pair (appends to the lists or to the queue)
\* only when the pair is not yet visited and then marks it for good, so each
\* pair is examined at most once; and when the walk is over the pairs
\* examined are exactly those reachable from (1, ROOT) through the resolved
\* targets of the options of third subchapters.
C29_WalkTerminates ==
    /\ <>(validator.phase = "reported")
    /\ [][validator.phase = "walking" /\ Len(validator.queue) > 0 =>
            LET state_id == "Ch" \o IntToStr(validator.queue[1][1]) \o "-" \o validator.queue[1][2]
            IN /\ validator.visited \subseteq validator'.visited
               /\ state_id \in validator'.visited
               /\ state_id \in validator.visited =>
                    /\ validator'.queue = Tail(validator.queue)
                    /\ validator'.missing_entries = validator.missing_entries
                    /\ validator'.broken_links = validator.broken_links
                    /\ validator'.visited = validator.visited]_vars
    /\ [](validator.phase = "reported" =>
            LET pairs == (1..2) \X {"ROOT", "A", "X"}
                Targets(pair) ==
                    LET case_c == CaseOf(pair[1], "C")
                        entry == validator.case_content[case_c][pair[2]]
                    IN IF HasPath(validator.case_content, case_c, pair[2])
                            /\ DecisionOf(entry) # None
                       THEN Range(Links(entry.decision.options)) ELSE {}
                Closed(S) == <<1, "ROOT">> \in S /\ \A pair \in S : Targets(pair) \subseteq S
                reachable == {pair \in pairs : \A S \in SUBSET pairs : Closed(S) => pair \in S}
            IN validator.visited = {"Ch" \o IntToStr(pair[1]) \o "-" \o pair[2] : pair \in reachable})

\* the walk is over on a graph whose chapter 2 leads back to chapter 1, ROOT
C29_Witness ==
    /\ validator.phase = "reported"
    /\ HasPath(validator.case_content, "002C", "A")
    /\ DecisionOf(validator.case_content["002C"]["A"]) # None
    /\ <<1, "ROOT">> \in Range(Links(validator.case_content["002C"]["A"].decision.options))
    /\ validator.visited = {"Ch1-ROOT", "Ch2-A"}

====
